---- MODULE Spec2Model ----
(***************************************************************************)
(* Water-level monitoring: the dashboard client's stream reconciler        *)
(* (firebase.js), the timestamp corrector and the ESP8266 gateway relay.   *)
(*                                                                         *)
(* JavaScript numbers that hold epoch milliseconds do not fit the model    *)
(* checker's 32-bit integers, so a millisecond value is kept as a pair     *)
(* [k, r] that stands for k * 1000 + r with 0 <= r < 1000.                 *)
(***************************************************************************)
EXTENDS Integers, Sequences, FiniteSets, TLC

\* ------------------------------------------------------------ JS values
\* A JavaScript value of a stored field: a number, undefined, NaN or null.
Num(n) == [t |-> "num", v |-> n]
UNDEF == [t |-> "undef", v |-> 0]
NAN == [t |-> "nan", v |-> 0]
JSNULL == [t |-> "null", v |-> 0]

\* A millisecond quantity k * 1000 + r.
Ms(k, r) == [t |-> "num", k |-> k, r |-> r]
TS_UNDEF == [t |-> "undef", k |-> 0, r |-> 0]
MsZero == Ms(0, 0)

MsLt(a, b) == a.k < b.k \/ (a.k = b.k /\ a.r < b.r)
MsGt(a, b) == MsLt(b, a)
MsGeq(a, b) == ~MsLt(a, b)
MsAdd(a, d) == Ms(a.k + ((a.r + d) \div 1000), (a.r + d) % 1000)
MsSub(a, b) == Ms((a.k - b.k) + ((a.r - b.r) \div 1000), (a.r - b.r) % 1000)
\* t * 1000 for a value t below 2000000000 (the product has r = 0).
MsTimes1000(a) == Ms(a.k * 1000 + a.r, 0)

\* ------------------------------------------------------------ bounds
MaxTicks == 4
MaxEvents == 3
\* granularity of the modelled clock, in milliseconds
TickMs == 500

\* ------------------------------------------------------------ TimestampCorrector
MS_2020 == Ms(1577836800, 0)
SEC_2020 == Ms(1577836, 800)
SEC_SATURATION == Ms(2000000, 0)

\* a corrector that passes a seconds-epoch value through without scaling it
fixTimestamp_NoScale(timestamp, now_) ==
  IF timestamp.t = "num" /\ MsGt(timestamp, SEC_2020) /\ MsLt(timestamp, SEC_SATURATION)
  THEN timestamp
  ELSE IF timestamp.t = "num" /\ MsGt(timestamp, MS_2020) THEN timestamp
  ELSE now_

\* a corrector whose first test is >= instead of >
fixTimestamp_Inclusive(timestamp, now_) ==
  IF timestamp.t = "num" /\ MsGeq(timestamp, MS_2020) THEN timestamp
  ELSE IF timestamp.t = "num" /\ MsGt(timestamp, SEC_2020) /\ MsLt(timestamp, SEC_SATURATION)
       THEN MsTimes1000(timestamp)
  ELSE now_

\* a corrector that scales every value below the saturation bound
fixTimestamp_NoLowerBound(timestamp, now_) ==
  IF timestamp.t = "num" /\ MsGt(timestamp, MS_2020) THEN timestamp
  ELSE IF timestamp.t = "num" /\ MsLt(timestamp, SEC_SATURATION)
       THEN MsTimes1000(timestamp)
  ELSE now_

\* fixTimestamp(timestamp), with Date.now() passed as now_.  A comparison
\* with undefined / NaN is false in JavaScript.
fixTimestamp(timestamp, now_) ==
  IF timestamp.t = "num" /\ MsGt(timestamp, MS_2020) THEN timestamp
  ELSE IF timestamp.t = "num" /\ MsGt(timestamp, SEC_2020) /\ MsLt(timestamp, SEC_SATURATION)
       THEN MsTimes1000(timestamp)
  ELSE now_

\* ------------------------------------------------------------ normalisation
MAX_DISTANCE == 15

Max2(a, b) == IF a > b THEN a ELSE b
Min2(a, b) == IF a < b THEN a ELSE b

\* parseFloat of a stored field: a number stays, anything else is NaN.
parseFloat(x) == IF x.t = "num" THEN x ELSE NAN

\* Math.max(0, Math.min(100, Math.round(100 - (distance / MAX_DISTANCE * 100))))
\* Math.round(x) is floor(x + 1/2); NaN propagates.
LegacyLevel(distance) ==
  IF parseFloat(distance).t = "num"
  THEN Num(Max2(0, Min2(100,
         (2 * (100 * MAX_DISTANCE - 100 * distance.v) + MAX_DISTANCE) \div (2 * MAX_DISTANCE))))
  ELSE NAN

getStatusFromWaterLevel(waterLevel) ==
  LET level == parseFloat(waterLevel)
  IN IF level.t = "num" /\ level.v >= 90 THEN "Danger"
     ELSE IF level.t = "num" /\ level.v >= 60 THEN "Warning"
     ELSE "Safe"

\* let waterLevel = data.waterLevel; if undefined and distance is there, derive it.
DeriveLevel(data) ==
  IF data.waterLevel.t = "undef" /\ data.distance.t # "undef"
  THEN LegacyLevel(data.distance)
  ELSE data.waterLevel

OrDefault(s, d) == IF s = "" THEN d ELSE s

CURRENT_ID == "current-reading"

\* The Reading object the current handler and the history handler build.
MakeReading(id, data, now_) ==
  LET waterLevel == DeriveLevel(data)
  IN [id |-> id,
      waterLevel |-> parseFloat(waterLevel),
      distance |-> IF data.distance.t # "undef" THEN parseFloat(data.distance) ELSE JSNULL,
      timestamp |-> fixTimestamp(data.timestamp, now_),
      deviceId |-> OrDefault(data.deviceId, "unknown"),
      status |-> OrDefault(data.status, getStatusFromWaterLevel(waterLevel))]

\* getCurrentWaterLevel(): the same object with the stored timestamp as it is.
FetchedReading(data) ==
  LET waterLevel == DeriveLevel(data)
  IN [id |-> CURRENT_ID,
      waterLevel |-> parseFloat(waterLevel),
      distance |-> IF data.distance.t # "undef" THEN parseFloat(data.distance) ELSE JSNULL,
      timestamp |-> data.timestamp,
      deviceId |-> OrDefault(data.deviceId, "unknown"),
      status |-> OrDefault(data.status, getStatusFromWaterLevel(waterLevel))]

\* ------------------------------------------------------------ stored data
Rec(wl, dist, ts, status, dev) ==
  [exists |-> TRUE, waterLevel |-> wl, distance |-> dist, timestamp |-> ts,
   status |-> status, deviceId |-> dev]
NoSnap ==
  [exists |-> FALSE, waterLevel |-> UNDEF, distance |-> UNDEF, timestamp |-> TS_UNDEF,
   status |-> "", deviceId |-> ""]

\* The receiver's clock when the subscription is set up.
StartTime == Ms(1700000000, 0)

\* Values the currentWaterLevel node can hold.
CurA == Rec(Num(40), Num(8), Ms(1699999990, 0), "Safe", "ultrasonic-sensor-1")
CurB == Rec(Num(70), Num(8), Ms(1700000, 100), "Warning", "ultrasonic-sensor-1")
CurBoot == Rec(Num(95), UNDEF, Ms(1, 0), "", "")
CurLegacy == Rec(UNDEF, Num(6), Ms(1699999995, 0), "", "")
CurNaN == Rec(NAN, UNDEF, Ms(1699999990, 0), "Safe", "")
CurNoTs == Rec(Num(50), UNDEF, MsZero, "Safe", "")
CurSnaps == {NoSnap, CurA, CurB, CurBoot, CurLegacy, CurNaN, CurNoTs}
\* Values the node can hold when the initial one-shot fetch reads it.
FetchSnaps == {NoSnap, CurB, CurBoot, CurNaN}

\* Values the waterLevelData node can hold: the children in key order.
Child(key, data) == [key |-> key, data |-> data]
HistOld == Child("1699999980000", Rec(Num(30), Num(6), Ms(1699999980, 0), "Safe", "ultrasonic-sensor-1"))
HistNew == Child("1699999995000", Rec(Num(65), Num(8), Ms(1699999995, 0), "", ""))
HistBoot == Child("5000", Rec(UNDEF, Num(3), Ms(5, 0), "", ""))
HistBad == Child("bad", Rec(UNDEF, UNDEF, TS_UNDEF, "", ""))
HistSnaps ==
  { <<>>, <<HistOld>>, <<HistOld, HistNew>>, <<HistBoot, HistBad>>, <<HistBad>> }

\* ------------------------------------------------------------ client state
VARIABLES
  clock,               \* milliseconds elapsed on the receiver's clock
  lastUpdateTime,      \* subscribeToWaterLevelUpdates: let lastUpdateTime
  pendingUpdate,       \* let pendingUpdate (None is null)
  pendingUpdateTimer,  \* let pendingUpdateTimer (a timer id; 0 is null)
  timers,              \* the event loop's armed timeouts
  allReadings,         \* let allReadings
  listening,           \* which onValue listeners are attached
  fetch,               \* the initial getCurrentWaterLevel() promise
  events,              \* number of snapshots delivered so far
  consumer,            \* the callback of subscribeToWaterLevelUpdates, as called by the last step
  deb,                 \* history of the debounced emitter
  merged,              \* last current / history snapshot the reconciler accepted
  minute               \* the callback of subscribeToMinuteByMinuteData, as called by the last step

\* a call of fixTimestamp and a second call on its result
VARIABLES fx

\* the ESP8266 gateway relay
VARIABLES
  pc,                  \* where the sketch is: setup's connect loop, loop(), the reconnect loop
  wifiUp,              \* the radio: WiFi.status() == WL_CONNECTED
  isWifiConnected,     \* bool isWifiConnected
  isFirebaseConnected, \* bool isFirebaseConnected
  wifiAttempts,        \* setup: int wifiAttempts
  reconnectAttempts,   \* checkAndReconnectWiFi: int reconnectAttempts
  serial,              \* the lines waiting in the serial receive buffer
  sinceWifiCheck,      \* millis() - lastWifiCheck, in milliseconds (saturating)
  lastSuccessfulUpload,\* unsigned long lastSuccessfulUpload
  store,               \* the Realtime Database: current slot, history, system logs
  gw                   \* what the last step of the relay did, and how its polls went

\* the Arduino sampler and the line it puts on the serial link
VARIABLES
  sampler,             \* the globals of the sampler sketch and its output pins
  relay,               \* what each gateway sketch makes of the line the sampler sent
  cl,                  \* two measured values and their classification
  chart                \* the state the chart of the dashboard is drawn from, and its points

clientVars ==
  <<clock, lastUpdateTime, pendingUpdate, pendingUpdateTimer, timers, allReadings,
    listening, fetch, events, consumer, deb, merged, minute>>
fixVars == <<fx>>
gatewayVars ==
  <<pc, wifiUp, isWifiConnected, isFirebaseConnected, wifiAttempts, reconnectAttempts,
    serial, sinceWifiCheck, lastSuccessfulUpload, store, gw>>

samplerVars == <<sampler, relay, cl, chart>>

vars == <<clientVars, fixVars, gatewayVars, samplerVars>>

\* the parts of the system a specification does not exercise stay as they are
FixIdle ==
  fx = [stage |-> "off", t |-> TS_UNDEF, now |-> MsZero, once |-> TS_UNDEF, twice |-> TS_UNDEF]
GatewayOff ==
  /\ pc = "off"
  /\ wifiUp = FALSE
  /\ isWifiConnected = FALSE
  /\ isFirebaseConnected = FALSE
  /\ wifiAttempts = 0
  /\ reconnectAttempts = 0
  /\ serial = <<>>
  /\ sinceWifiCheck = 0
  /\ lastSuccessfulUpload = MsZero
  /\ store = [current |-> <<>>, history |-> {}, logs |-> {}]
  /\ gw = [call |-> "none", decoded |-> 0, arrived |-> 0, allFailed |-> FALSE,
           bootFailed |-> FALSE, wrote |-> "none", reported |-> "none"]
SamplerOff ==
  /\ sampler = [stage |-> "off"]
  /\ relay = [stage |-> "off"]
  /\ cl = [stage |-> "off"]
  /\ chart = [stage |-> "off"]

UPDATE_DEBOUNCE_TIME == 2000

\* Date.now()
Now == MsAdd(StartTime, clock)

None == <<>>
Some(x) == <<x>>

\* ------------------------------------------------------------ list helpers
RECURSIVE InsertDesc(_, _)
\* x goes after every element whose timestamp is >= its own (a stable sort).
InsertDesc(s, x) ==
  IF s = <<>> THEN <<x>>
  ELSE IF MsLt(Head(s).timestamp, x.timestamp) THEN <<x>> \o s
  ELSE <<Head(s)>> \o InsertDesc(Tail(s), x)

RECURSIVE SortDesc(_)
\* arr.sort((a, b) => b.timestamp - a.timestamp)
SortDesc(s) ==
  IF s = <<>> THEN <<>>
  ELSE InsertDesc(SortDesc(SubSeq(s, 1, Len(s) - 1)), s[Len(s)])

HasCurrent(s) == \E i \in 1..Len(s) : s[i].id = CURRENT_ID
\* allReadings.findIndex(r => r.id === 'current-reading') (1-based; 0 when absent)
FindCurrent(s) ==
  IF HasCurrent(s) THEN CHOOSE i \in 1..Len(s) :
       s[i].id = CURRENT_ID /\ \A j \in 1..(i - 1) : s[j].id # CURRENT_ID
  ELSE 0

\* a validation that lets every reading through
IsValidLevel_Any(r) == TRUE
\* !isNaN(reading.waterLevel)
IsValidLevel(r) == r.waterLevel.t = "num"
NotCurrent(r) == r.id # CURRENT_ID

\* ------------------------------------------------------------ debounced emitter
\* a clearTimeout that leaves the timer armed
ClearTimeout_Keep(tq, id) == tq

\* clearTimeout(id)
ClearTimeout(tq, id) == {t \in tq : t.id # id}

\* the id setTimeout returns: one no armed timer and no variable holds
FreshId(tq, held) ==
  CHOOSE i \in 1..(Cardinality(tq) + 2) :
    /\ i # held
    /\ \A t \in tq : t.id # i
    /\ \A j \in 1..(i - 1) : j = held \/ \E t \in tq : t.id = j

\* timeSinceLastUpdate >= UPDATE_DEBOUNCE_TIME
ShouldEmitNow(timeSinceLastUpdate) ==
  MsGeq(timeSinceLastUpdate, Ms(UPDATE_DEBOUNCE_TIME \div 1000, UPDATE_DEBOUNCE_TIME % 1000))

\* const timeToWait = UPDATE_DEBOUNCE_TIME - timeSinceLastUpdate
TimeToWait(timeSinceLastUpdate) ==
  UPDATE_DEBOUNCE_TIME - (timeSinceLastUpdate.k * 1000 + timeSinceLastUpdate.r)

\* callback(data): the consumer of subscribeToWaterLevelUpdates is called
Deliver(data, kind) ==
  [consumer EXCEPT !.out = Some(data), !.kind = kind, !.late = @ \/ consumer.unsub,
                   !.at = clock, !.dropped = "none", !.seen = None]
\* a step that does not call the consumer
Silent ==
  [consumer EXCEPT !.out = None, !.kind = "none", !.dropped = "none", !.seen = None]

\* an update reaches the debounced emitter
Seen ==
  [deb EXCEPT !.firstAt = IF deb.firstAt < 0 THEN clock ELSE @,
              !.oneWindow = @ /\ (deb.firstAt < 0 \/ clock - deb.firstAt < UPDATE_DEBOUNCE_TIME)]

\* const debouncedCallback = (data) => { ... }
debouncedCallback(data) ==
  LET cleared == IF pendingUpdateTimer # 0
                 THEN ClearTimeout(timers, pendingUpdateTimer) ELSE timers
      timeSinceLastUpdate == MsSub(Now, lastUpdateTime)
      id == FreshId(cleared, pendingUpdateTimer)
  IN IF ShouldEmitNow(timeSinceLastUpdate)
     THEN /\ lastUpdateTime' = Now
          /\ consumer' = Deliver(data, "immediate")
          /\ pendingUpdate' = None
          /\ timers' = cleared
          /\ deb' = [Seen EXCEPT !.emits = @ + 1, !.buffered = 0]
          /\ UNCHANGED pendingUpdateTimer
     ELSE /\ pendingUpdate' = Some(data)
          /\ timers' = cleared \cup
               {[id |-> id, due |-> clock + TimeToWait(timeSinceLastUpdate)]}
          /\ pendingUpdateTimer' = id
          /\ deb' = [Seen EXCEPT !.buffered = @ + 1]
          /\ consumer' = Silent
          /\ UNCHANGED lastUpdateTime

\* a macrotask may run: no promise reaction is queued
Idle == fetch.state # "returned"

\* the setTimeout callback of debouncedCallback
TimerFire ==
  \E t \in timers :
    /\ Idle
    /\ clock >= t.due
    /\ timers' = timers \ {t}
    /\ lastUpdateTime' = Now
    /\ IF pendingUpdate # None
       THEN /\ consumer' = Deliver(pendingUpdate[1], "timer")
            /\ pendingUpdate' = None
            /\ pendingUpdateTimer' = 0
            /\ deb' = [deb EXCEPT !.emits = @ + 1, !.buffered = 0, !.covered = deb.buffered]
       ELSE \* [...null] throws a TypeError: the rest of the callback is skipped
            /\ deb' = [deb EXCEPT !.threw = TRUE]
            /\ consumer' = Silent
            /\ UNCHANGED <<pendingUpdate, pendingUpdateTimer>>
    /\ UNCHANGED <<clock, allReadings, listening, fetch, events, merged, minute>>
    /\ UNCHANGED <<fixVars, gatewayVars, samplerVars>>

\* getCurrentWaterLevel(): the promise resolves with a Reading or with null
FetchReturn ==
  \E snap \in FetchSnaps :
    /\ fetch.state = "pending"
    /\ fetch' = [state |-> "returned",
                 value |-> IF snap.exists THEN Some(FetchedReading(snap)) ELSE None]
    /\ consumer' = Silent
    /\ UNCHANGED <<clock, lastUpdateTime, pendingUpdate, pendingUpdateTimer, timers,
                   allReadings, listening, events, deb, merged, minute>>
    /\ UNCHANGED <<fixVars, gatewayVars, samplerVars>>

\* getCurrentWaterLevel().then(currentReading => { ... })
FetchThen ==
  /\ fetch.state = "returned"
  /\ fetch' = [state |-> "done", value |-> None]
  /\ IF fetch.value # None
     THEN LET currentReading ==
                [fetch.value[1] EXCEPT !.timestamp = fixTimestamp(@, Now)]
          IN /\ lastUpdateTime' = Now
             /\ consumer' = Deliver(<<currentReading>>, "fetch")
     ELSE /\ consumer' = Silent
          /\ UNCHANGED lastUpdateTime
  /\ UNCHANGED <<clock, pendingUpdate, pendingUpdateTimer, timers, allReadings,
                 listening, events, deb, merged, minute>>
  /\ UNCHANGED <<fixVars, gatewayVars, samplerVars>>

\* ------------------------------------------------------------ reconciler
\* currentData.timestamp as a condition: a non-zero number
Truthy(ts) == ts.t = "num" /\ ts # MsZero

\* (currentData.waterLevel !== undefined || currentData.distance !== undefined)
\*   && currentData.timestamp
HasRequiredFields(data) ==
  (data.waterLevel.t # "undef" \/ data.distance.t # "undef") /\ Truthy(data.timestamp)

\* a current handler that always adds the reading at the front
MergeCurrent_Append(list, currentReading) ==
  IF Len(list) = 0 THEN <<currentReading>>
  ELSE SortDesc(<<currentReading>> \o list)

\* why the current handler leaves a snapshot aside: console.warn of the
\* required-field test, console.error of the isNaN test, or no snapshot
DropReason(snap) ==
  IF ~snap.exists THEN "absent"
  ELSE IF snap.waterLevel.t = "undef" /\ snap.distance.t = "undef" THEN "fields"
  ELSE IF ~Truthy(snap.timestamp) THEN "timestamp"
  ELSE "level"

\* the current handler's new value of allReadings
MergeCurrent(list, currentReading) ==
  IF Len(list) = 0 THEN <<currentReading>>
  ELSE LET currentIndex == FindCurrent(list)
       IN SortDesc(IF currentIndex >= 1
                   THEN [list EXCEPT ![currentIndex] = currentReading]
                   ELSE <<currentReading>> \o list)

\* Object.keys(data).map(...).filter(...): the valid entries of a history snapshot
ValidEntries(snap, now_) ==
  SelectSeq([i \in 1..Len(snap) |-> MakeReading(snap[i].key, snap[i].data, now_)],
            IsValidLevel)

\* the history handler's new value of allReadings
MergeHistory(list, validEntries) ==
  LET sorted == SortDesc(validEntries)
  IN IF HasCurrent(list)
     THEN <<list[FindCurrent(list)]>> \o SelectSeq(sorted, NotCurrent)
     ELSE sorted

\* onValue(currentWaterLevelRef, (snapshot) => { ... })
CurrentUpdate ==
  \E snap \in CurSnaps :
    /\ Idle
    /\ "current" \in listening
    /\ events < MaxEvents
    /\ events' = events + 1
    /\ LET currentReading == MakeReading(CURRENT_ID, snap, Now)
       IN IF snap.exists /\ HasRequiredFields(snap) /\ IsValidLevel(currentReading)
          THEN /\ allReadings' = MergeCurrent(allReadings, currentReading)
               /\ debouncedCallback(allReadings')
               /\ merged' = [merged EXCEPT !.cur = snap, !.last = "current"]
          ELSE /\ consumer' = [Silent EXCEPT !.dropped = DropReason(snap),
                                              !.seen = Some([from |-> "current", snap |-> snap])]
               /\ UNCHANGED <<lastUpdateTime, pendingUpdate, pendingUpdateTimer, timers,
                              allReadings, deb, merged>>
    /\ UNCHANGED <<clock, listening, fetch, minute>>
    /\ UNCHANGED <<fixVars, gatewayVars, samplerVars>>

\* onValue(waterLevelDataRef, (snapshot) => { ... })
HistoryUpdate ==
  \E snap \in HistSnaps :
    /\ Idle
    /\ "history" \in listening
    /\ events < MaxEvents
    /\ events' = events + 1
    /\ LET validEntries == ValidEntries(snap, Now)
       IN IF Len(validEntries) > 0
          THEN /\ allReadings' = MergeHistory(allReadings, validEntries)
               /\ debouncedCallback(allReadings')
               /\ merged' = [merged EXCEPT !.hist = snap, !.last = "history"]
          ELSE /\ consumer' = [Silent EXCEPT
                                 !.seen = Some([from |-> "history", snap |-> snap])]
               /\ UNCHANGED <<lastUpdateTime, pendingUpdate, pendingUpdateTimer, timers,
                              allReadings, deb, merged>>
    /\ UNCHANGED <<clock, listening, fetch, minute>>
    /\ UNCHANGED <<fixVars, gatewayVars, samplerVars>>

\* an unsubscribe handle that detaches the listeners and leaves the timer armed
Unsubscribe_NoClear ==
  /\ Idle
  /\ listening' = listening \ {"current", "history"}
  /\ consumer' = [Silent EXCEPT !.unsub = TRUE]
  /\ UNCHANGED <<clock, lastUpdateTime, pendingUpdate, pendingUpdateTimer, timers,
                 allReadings, fetch, events, deb, merged, minute>>
  /\ UNCHANGED <<fixVars, gatewayVars, samplerVars>>

\* what the unsubscribe handle reads and writes
HandleState ==
  [listening |-> listening, timers |-> timers,
   pendingUpdateTimer |-> pendingUpdateTimer, pendingUpdate |-> pendingUpdate]

\* a handle that detaches the listeners only
unsubscribe_NoClear(s) ==
  [s EXCEPT !.listening = @ \ {"current", "history"}]

\* currentUnsubscribe(); historyUnsubscribe();
\* if (pendingUpdateTimer) clearTimeout(pendingUpdateTimer)
unsubscribe(s) ==
  [s EXCEPT !.listening = @ \ {"current", "history"},
            !.timers = IF s.pendingUpdateTimer # 0
                       THEN ClearTimeout(@, s.pendingUpdateTimer) ELSE @]

\* the function subscribeToWaterLevelUpdates returns
Unsubscribe ==
  /\ Idle
  /\ listening' = unsubscribe(HandleState).listening
  /\ timers' = unsubscribe(HandleState).timers
  /\ consumer' = [Silent EXCEPT !.unsub = TRUE]
  /\ UNCHANGED <<clock, lastUpdateTime, pendingUpdate, pendingUpdateTimer, allReadings,
                 fetch, events, deb, merged, minute>>
  /\ UNCHANGED <<fixVars, gatewayVars, samplerVars>>

\* ------------------------------------------------------------ minute-by-minute data
MinRec(wl, ts, status, dev) ==
  [waterLevel |-> wl, timestamp |-> ts, status |-> status, deviceId |-> dev]
MinOld == Child("2023-11-14-22-00", MinRec(Num(30), Ms(1699999200, 0), "Safe", "webapp-5minute-recorder"))
MinNew == Child("2023-11-14-22-05", MinRec(Num(92), Ms(1699999, 500), "", ""))
MinBoot == Child("1970-01-01-00-00", MinRec(Num(61), Ms(7, 0), "", ""))
MinBad == Child("bad", MinRec(NAN, TS_UNDEF, "", ""))
MinuteSnaps == { <<>>, <<MinOld, MinNew>>, <<MinBoot, MinBad>>, <<MinBad>> }

\* the object subscribeToMinuteByMinuteData builds for one child
MinuteReading(key, entry, now_) ==
  [id |-> key,
   waterLevel |-> parseFloat(entry.waterLevel),
   timestamp |-> fixTimestamp(entry.timestamp, now_),
   deviceId |-> OrDefault(entry.deviceId, "unknown"),
   status |-> OrDefault(entry.status, getStatusFromWaterLevel(entry.waterLevel))]

\* onValue(minuteDataRef, (snapshot) => { ... })
MinuteUpdate ==
  \E snap \in MinuteSnaps :
    /\ Idle
    /\ "minute" \in listening
    /\ events < MaxEvents
    /\ events' = events + 1
    /\ LET validEntries ==
             SelectSeq([i \in 1..Len(snap) |-> MinuteReading(snap[i].key, snap[i].data, Now)],
                       IsValidLevel)
       IN IF snap = <<>>
          THEN minute' = [out |-> Some(<<>>)]
          ELSE IF Len(validEntries) > 0
          THEN minute' = [out |-> Some(SortDesc(validEntries))]
          ELSE minute' = [out |-> None]
    /\ consumer' = Silent
    /\ UNCHANGED <<clock, lastUpdateTime, pendingUpdate, pendingUpdateTimer, timers,
                   allReadings, listening, fetch, deb, merged>>
    /\ UNCHANGED <<fixVars, gatewayVars, samplerVars>>

\* time passes on the receiver
Tick ==
  /\ Idle
  /\ clock < MaxTicks * TickMs
  /\ clock' = clock + TickMs
  /\ consumer' = Silent
  /\ minute' = [out |-> None]
  /\ UNCHANGED <<lastUpdateTime, pendingUpdate, pendingUpdateTimer, timers, allReadings,
                 listening, fetch, events, deb, merged>>
  /\ UNCHANGED <<fixVars, gatewayVars, samplerVars>>

\* the state when subscribeToWaterLevelUpdates and subscribeToMinuteByMinuteData return
ClientInit ==
  /\ clock = 0
  /\ lastUpdateTime = MsZero
  /\ pendingUpdate = None
  /\ pendingUpdateTimer = 0
  /\ timers = {}
  /\ allReadings = <<>>
  /\ listening = {"current", "history", "minute"}
  /\ fetch = [state |-> "pending", value |-> None]
  /\ events = 0
  /\ consumer = [out |-> None, kind |-> "none", late |-> FALSE, unsub |-> FALSE,
                 at |-> -1, dropped |-> "none", seen |-> None]
  /\ deb = [firstAt |-> -1, oneWindow |-> TRUE, emits |-> 0, buffered |-> 0, covered |-> 0,
            threw |-> FALSE]
  /\ merged = [cur |-> NoSnap, hist |-> <<>>, last |-> "none"]
  /\ minute = [out |-> None]

Init == ClientInit /\ FixIdle /\ GatewayOff /\ SamplerOff

Next ==
  \/ Tick
  \/ FetchReturn
  \/ FetchThen
  \/ CurrentUpdate
  \/ HistoryUpdate
  \/ TimerFire
  \/ Unsubscribe
  \/ MinuteUpdate

Spec == Init /\ [][Next]_vars

\* ------------------------------------------------------------ fixTimestamp on its own
\* stored clock values around every threshold of fixTimestamp
FixSeconds ==
  {0, 1, 1577836, 1577837, 1700000, 1999999, 2000000, 2000001, 1577836799, 1577836800,
   1577836801, 1700000000}
FixMillis == {0, 1, 799, 800, 801, 999}
FixInputs ==
  {Ms(k, r) : k \in FixSeconds, r \in FixMillis}
    \cup {TS_UNDEF, [t |-> "nan", k |-> 0, r |-> 0]}
\* receiver clocks: Date.now() of a browser whose clock is set
FixNows == {StartTime, MsAdd(StartTime, 1), Ms(1577836800, 1), Ms(1893456000, 999)}

InitFix ==
  /\ ClientInit
  /\ GatewayOff
  /\ SamplerOff
  /\ \E t \in FixInputs, n \in FixNows :
       fx = [stage |-> "input", t |-> t, now |-> n, once |-> TS_UNDEF, twice |-> TS_UNDEF]

\* fixTimestamp(t)
FixOnce ==
  /\ fx.stage = "input"
  /\ fx' = [fx EXCEPT !.stage = "once", !.once = fixTimestamp(fx.t, fx.now)]
  /\ UNCHANGED <<clientVars, gatewayVars, samplerVars>>

\* fixTimestamp(fixTimestamp(t)), Date.now() unchanged
FixTwice ==
  /\ fx.stage = "once"
  /\ fx' = [fx EXCEPT !.stage = "twice", !.twice = fixTimestamp(fx.once, fx.now)]
  /\ UNCHANGED <<clientVars, gatewayVars, samplerVars>>

NextFix == FixOnce \/ FixTwice

SpecFix == InitFix /\ [][NextFix]_vars

\* ------------------------------------------------------------ gateway: strings
\* An Arduino String is a sequence of characters; indices are 0-based as in
\* the String class.
Digits == <<"0", "1", "2", "3", "4", "5", "6", "7", "8", "9">>
IsDigit(c) == \E i \in 1..10 : Digits[i] = c
DigitVal(c) == (CHOOSE i \in 1..10 : Digits[i] = c) - 1
IsSpace(c) == c \in {" ", "\r", "\n", "\t"}

\* data.startsWith(prefix)
startsWith(str, prefix) ==
  Len(str) >= Len(prefix) /\ SubSeq(str, 1, Len(prefix)) = prefix

\* data.indexOf(ch, fromIndex): -1 when there is none
indexOf(str, ch, fromIndex) ==
  IF \E i \in (fromIndex + 1)..Len(str) : str[i] = ch
  THEN (CHOOSE i \in (fromIndex + 1)..Len(str) :
          str[i] = ch /\ \A j \in (fromIndex + 1)..(i - 1) : str[j] # ch) - 1
  ELSE -1

\* data.indexOf("cm")
indexOfString(str, sub) ==
  IF \E i \in 1..(Len(str) - Len(sub) + 1) : SubSeq(str, i, i + Len(sub) - 1) = sub
  THEN (CHOOSE i \in 1..(Len(str) - Len(sub) + 1) :
          /\ SubSeq(str, i, i + Len(sub) - 1) = sub
          /\ \A j \in 1..(i - 1) : SubSeq(str, j, j + Len(sub) - 1) # sub) - 1
  ELSE -1

\* data.substring(left, right): left inclusive, right exclusive; the bounds are
\* swapped when left > right and right is cut to the length
substring(str, left, right) ==
  LET lo == Min2(left, right)
      hi == Min2(Max2(left, right), Len(str))
  IN IF lo >= Len(str) THEN <<>> ELSE SubSeq(str, lo + 1, hi)

RECURSIVE trimLeft(_)
trimLeft(str) ==
  IF str # <<>> /\ IsSpace(Head(str)) THEN trimLeft(Tail(str)) ELSE str
RECURSIVE trimRight(_)
trimRight(str) ==
  IF str # <<>> /\ IsSpace(str[Len(str)])
  THEN trimRight(SubSeq(str, 1, Len(str) - 1)) ELSE str
\* data.trim()
trim(str) == trimRight(trimLeft(str))

RECURSIVE DigitRun(_)
\* the leading digits of str
DigitRun(str) ==
  IF str # <<>> /\ IsDigit(Head(str)) THEN <<Head(str)>> \o DigitRun(Tail(str)) ELSE <<>>
RECURSIVE Decimal(_)
Decimal(ds) ==
  IF ds = <<>> THEN 0 ELSE 10 * Decimal(SubSeq(ds, 1, Len(ds) - 1)) + DigitVal(ds[Len(ds)])

\* str.toFloat(), in hundredths of a unit: leading white space, a sign, digits,
\* a fraction; 0 when no number starts the string.  The model's lines carry at
\* most two decimals.
toFloat(str) ==
  LET body == trimLeft(str)
      neg == body # <<>> /\ Head(body) = "-"
      unsigned == IF body # <<>> /\ Head(body) \in {"-", "+"} THEN Tail(body) ELSE body
      whole == DigitRun(unsigned)
      rest == SubSeq(unsigned, Len(whole) + 1, Len(unsigned))
      frac == IF rest # <<>> /\ Head(rest) = "." THEN DigitRun(Tail(rest)) ELSE <<>>
      frac2 == SubSeq(frac \o <<"0", "0">>, 1, 2)
      magnitude == IF whole = <<>> /\ frac = <<>> THEN 0
                   ELSE 100 * Decimal(whole) + Decimal(frac2)
  IN IF neg THEN 0 - magnitude ELSE magnitude

\* ------------------------------------------------------------ gateway: lines
TagWater == <<"W", "A", "T", "E", "R", ":">>
TagDistance == <<"D", "i", "s", "t", "a", "n", "c", "e", ":">>
Cm == <<"c", "m">>
TextSafe == <<"S", "a", "f", "e">>
TextCritical == <<"C", "r", "i", "t", "i", "c", "a", "l">>
TextNoObject == <<"N", "o", " ", "O", "b", "j", "e", "c", "t">>

\* lines the serial link can deliver (without the terminating newline)
LineSafe == TagWater \o <<"2">> \o Cm \o <<":">> \o TextSafe \o <<"\r">>
LineCritical == TagWater \o <<"9">> \o Cm \o <<":">> \o TextCritical
LineNoObject == TagWater \o <<"-", "-">> \o Cm \o <<":">> \o TextNoObject
LineNoValue == TagWater \o <<"-", "-", ":", "0">>
LineTwoNumbers == TagWater \o <<"4", ".", "5", ":", "1", "2">>
LineLegacy == TagDistance \o <<" ", "7", " ">> \o Cm
LineLegacyFar == TagDistance \o <<" ", "2", "5", " ">> \o Cm \o <<"\r">>
LineNoSeparator == TagWater \o <<"7">>
LineZero == TagWater \o <<"0">> \o Cm \o <<":">> \o TextSafe
LineNoise == <<"h", "e", "l", "l", "o">>
LineEmptyValue == TagWater \o <<":">> \o TextSafe
LineWord == TagWater \o <<"l", "o", "w">> \o Cm \o <<":">> \o TextSafe
Lines ==
  {LineSafe, LineCritical, LineNoObject, LineNoValue, LineTwoNumbers, LineLegacy,
   LineLegacyFar, LineNoSeparator, LineZero, LineNoise, LineEmptyValue, LineWord}
\* the lines without a reading: a wrong tag, no separator, an empty value, a
\* value that is no number
MalformedLines ==
  {LineNoise, LineNoSeparator, LineEmptyValue, LineNoObject, LineNoValue, LineWord}

\* the lines the relay is run on: two readings and two lines without one
RelayLines == {LineSafe, LineLegacyFar, LineNoObject, LineNoise}

\* ------------------------------------------------------------ gateway: relay
SAFE_THRESHOLD_CM == 300
WARNING_THRESHOLD_CM == 600
MAX_DISTANCE_CM == 2000
REPORT_MAX_DISTANCE_CM == 800
\* while (... && wifiAttempts < 30)
BootAttempts == 30
\* while (... && reconnectAttempts < 10)
ReconnectAttempts == 10
\* delay(500) of the two retry loops, in milliseconds
RetryDelay == 500
\* the LED blink loops of a failed setup, in milliseconds
WifiFailBlink == 10 * (50 + 50)
FirebaseFailBlink == 5 * (100 + 100)
\* if (millis() - lastWifiCheck > 15000)
WifiCheckInterval == 15000

\* lines the sampler sends while the model runs
MaxLines == 2
\* the relay's clock between two turns of loop() advances by ten retry delays
LoopMs == 10 * RetryDelay

\* readings of the NTP clock (epoch seconds)
EpochTimes == {1700000000, 1700000001}

\* millis() - lastWifiCheck after d more milliseconds; beyond the interval the
\* exact value no longer matters
Later(since, d) == Min2(since + d, WifiCheckInterval + 1)

\* the value the sketch decodes from a line: waterLevelCM, in hundredths of a cm
DecodeLine(data) ==
  IF startsWith(data, TagWater)
  THEN LET firstSeparator == indexOf(data, ":", 6)
       IN IF firstSeparator > 0
          THEN LET waterLevelString == substring(data, 6, firstSeparator)
               IN IF waterLevelString # <<"-", "-">> THEN toFloat(waterLevelString) ELSE 0
          ELSE 0
  ELSE IF startsWith(data, TagDistance)
  THEN LET startPos == indexOf(data, ":", 0) + 1
           endPos == indexOfString(data, Cm)
       IN IF endPos > startPos
          THEN toFloat(trim(substring(data, startPos, endPos)))
          ELSE 0
  ELSE 0

\* data.startsWith("WATER:") || data.startsWith("Distance:")
IsWaterLevelData(data) == startsWith(data, TagWater) \/ startsWith(data, TagDistance)

\* a classification that gives each threshold to the upper tier
StatusOf_Exclusive(waterLevelCM) ==
  IF waterLevelCM < SAFE_THRESHOLD_CM THEN "Safe"
  ELSE IF waterLevelCM < WARNING_THRESHOLD_CM THEN "Warning"
  ELSE "Critical"

\* a test that takes a line without a value for a reading
HasReading_OrZero(waterLevelCM) == waterLevelCM >= 0

\* if (waterLevelCM > 0)
HasReading(waterLevelCM) == waterLevelCM > 0

\* the status the relay derives from the thresholds
StatusOf(waterLevelCM) ==
  IF waterLevelCM <= SAFE_THRESHOLD_CM THEN "Safe"
  ELSE IF waterLevelCM <= WARNING_THRESHOLD_CM THEN "Warning"
  ELSE "Critical"

\* int waterLevelPercent = (waterLevelCM / MAX_DISTANCE_CM) * 100, capped at 100
PercentOf(waterLevelCM) == Min2((waterLevelCM * 100) \div MAX_DISTANCE_CM, 100)

\* a reported distance without the cap
ReportedOf_Uncapped(waterLevelCM) == waterLevelCM

\* the reported distance, capped at REPORT_MAX_DISTANCE_CM
ReportedOf(waterLevelCM) == Min2(waterLevelCM, REPORT_MAX_DISTANCE_CM)

\* (unsigned long) epoch * 1000L in 32-bit unsigned arithmetic, as k * 1000 + r
Timestamp32(epoch) ==
  LET prod == (epoch % 65536) * 1000
      lo == prod % 65536
      hi == ((epoch \div 65536) * 1000 + prod \div 65536) % 65536
  IN Ms(hi * 65 + (hi * 536 + lo) \div 1000, (hi * 536 + lo) % 1000)

\* Firebase.setJSON(firebaseData, path, json) on a keyed node
PutAt(node, key, value) ==
  {e \in node : e.key # key} \cup {[key |-> key, value |-> value]}

\* an upload guard that looks at the network flag only
BothLinksConnected_WifiOnly == isWifiConnected

\* if (isWifiConnected && isFirebaseConnected)
BothLinksConnected == isWifiConnected /\ isFirebaseConnected

\* a connect loop that allows one attempt more
BootRetry_OneMore == ~wifiUp /\ wifiAttempts <= BootAttempts

\* while (WiFi.status() != WL_CONNECTED && wifiAttempts < 30)
BootRetry == ~wifiUp /\ wifiAttempts < BootAttempts

\* while (WiFi.status() != WL_CONNECTED && reconnectAttempts < 10)
ReconnectRetry == ~wifiUp /\ reconnectAttempts < ReconnectAttempts

Quiet == [gw EXCEPT !.call = "none", !.decoded = 0, !.wrote = "none", !.reported = "none"]

\* an upload that writes the current slot whatever the history write returned
uploadWaterLevel_CurrentAnyway(waterLevelPercent, waterLevelCM, status, decoded) ==
  \E epoch \in EpochTimes, historyOk \in BOOLEAN, currentOk \in BOOLEAN :
    LET timestamp == Timestamp32(epoch)
        json == [waterLevel |-> waterLevelPercent, distance |-> waterLevelCM,
                 status |-> status, deviceId |-> "ultrasonic-sensor-1",
                 timestamp |-> timestamp]
    IN /\ (historyOk \/ currentOk) => wifiUp
       /\ store' = [store EXCEPT
             !.history = IF historyOk THEN PutAt(@, timestamp, json) ELSE @,
             !.current = IF currentOk THEN <<json>> ELSE @]
       /\ lastSuccessfulUpload' = IF historyOk THEN timestamp ELSE lastSuccessfulUpload
       /\ gw' = [gw EXCEPT !.call = "upload", !.decoded = decoded,
                           !.wrote = IF historyOk
                                     THEN (IF currentOk THEN "both" ELSE "history")
                                     ELSE "neither",
                           !.reported = IF historyOk THEN "Upload successful"
                                        ELSE "Upload failed"]

\* uploadWaterLevel(waterLevelPercent, waterLevelCM, status); decoded is the
\* value the caller read from the line, kept for the record of the step
uploadWaterLevel(waterLevelPercent, waterLevelCM, status, decoded) ==
  \E epoch \in EpochTimes, historyOk \in BOOLEAN, currentOk \in BOOLEAN :
    LET timestamp == Timestamp32(epoch)
        json == [waterLevel |-> waterLevelPercent, distance |-> waterLevelCM,
                 status |-> status, deviceId |-> "ultrasonic-sensor-1",
                 timestamp |-> timestamp]
    IN /\ (historyOk \/ currentOk) => wifiUp
       /\ IF historyOk
          THEN /\ store' = [store EXCEPT
                     !.history = PutAt(@, timestamp, json),
                     !.current = IF currentOk THEN <<json>> ELSE @]
               /\ lastSuccessfulUpload' = timestamp
               /\ gw' = [gw EXCEPT !.call = "upload", !.decoded = decoded,
                                   !.wrote = IF currentOk THEN "both" ELSE "history",
                                   !.reported = "Upload successful"]
          ELSE /\ ~currentOk
               /\ gw' = [gw EXCEPT !.call = "upload", !.decoded = decoded,
                                   !.wrote = "neither", !.reported = "Upload failed"]
               /\ UNCHANGED <<store, lastSuccessfulUpload>>

\* checkAndReconnectWiFi(), up to the first test of its retry loop
checkAndReconnectWiFi ==
  IF ~wifiUp
  THEN /\ isWifiConnected' = FALSE
       /\ reconnectAttempts' = 0
       /\ pc' = "reconnect_wait"
  ELSE UNCHANGED <<isWifiConnected, reconnectAttempts, pc>>

\* setup() begins: WiFi.begin(...), int wifiAttempts = 0
InitGateway ==
  /\ ClientInit
  /\ FixIdle
  /\ SamplerOff
  /\ pc = "setup_wait"
  /\ wifiUp = FALSE
  /\ isWifiConnected = FALSE
  /\ isFirebaseConnected = FALSE
  /\ wifiAttempts = 0
  /\ reconnectAttempts = 0
  /\ serial = <<>>
  /\ sinceWifiCheck = 0
  /\ lastSuccessfulUpload = MsZero
  /\ store = [current |-> <<>>, history |-> {}, logs |-> {}]
  /\ gw = [call |-> "none", decoded |-> 0, arrived |-> 0, allFailed |-> TRUE,
           bootFailed |-> FALSE, wrote |-> "none", reported |-> "none"]

\* one test of setup's connect loop and, when it holds, one turn of the loop
BootPoll ==
  /\ pc = "setup_wait"
  /\ IF BootRetry
     THEN /\ wifiAttempts' = wifiAttempts + 1
          /\ sinceWifiCheck' = Later(sinceWifiCheck, RetryDelay)
          /\ gw' = Quiet
          /\ UNCHANGED pc
     ELSE /\ pc' = "setup_done"
          /\ gw' = [Quiet EXCEPT !.allFailed = @ /\ ~wifiUp]
          /\ UNCHANGED <<wifiAttempts, sinceWifiCheck>>
  /\ UNCHANGED <<wifiUp, isWifiConnected, isFirebaseConnected, reconnectAttempts, serial,
                 lastSuccessfulUpload, store>>
  /\ UNCHANGED <<clientVars, fixVars, samplerVars>>

\* the four logToFirebase calls of a successful setup: they read the same
\* second of the clock, so they write one path /systemLogs/<timestamp>; the
\* model keeps the paths written, not the message texts
BootLogs(epoch, written) ==
  IF written THEN [store EXCEPT !.logs = @ \cup {Timestamp32(epoch)}] ELSE store

\* setup() after the connect loop: if (WiFi.status() == WL_CONNECTED) ... else ...
BootCheck ==
  /\ pc = "setup_done"
  /\ pc' = "loop"
  /\ wifiAttempts' = 0
  /\ gw' = [Quiet EXCEPT !.allFailed = FALSE, !.bootFailed = gw.allFailed /\ ~wifiUp]
  /\ IF wifiUp
     THEN /\ isWifiConnected' = TRUE
          /\ \E ready \in BOOLEAN :
               IF ready
               THEN /\ isFirebaseConnected' = TRUE
                    /\ \E epoch \in EpochTimes, written \in BOOLEAN :
                         store' = BootLogs(epoch, written)
                    /\ UNCHANGED sinceWifiCheck
               ELSE /\ sinceWifiCheck' = Later(sinceWifiCheck, FirebaseFailBlink)
                    /\ UNCHANGED <<isFirebaseConnected, store>>
     ELSE /\ sinceWifiCheck' = Later(sinceWifiCheck, WifiFailBlink)
          /\ UNCHANGED <<isWifiConnected, isFirebaseConnected, store>>
  /\ UNCHANGED <<wifiUp, reconnectAttempts, serial, lastSuccessfulUpload>>
  /\ UNCHANGED <<clientVars, fixVars, samplerVars>>

\* loop(): one turn of while (Serial.available() > 0)
ProcessLine ==
  /\ pc = "loop"
  /\ serial # <<>>
  /\ serial' = Tail(serial)
  /\ LET data == trim(Head(serial))
         waterLevelCM == IF IsWaterLevelData(data) THEN DecodeLine(data) ELSE 0
     IN IF HasReading(waterLevelCM)
        THEN IF BothLinksConnected
             THEN /\ uploadWaterLevel(PercentOf(waterLevelCM), ReportedOf(waterLevelCM),
                                      StatusOf(waterLevelCM), waterLevelCM)
                  /\ UNCHANGED <<isWifiConnected, reconnectAttempts, pc>>
             ELSE /\ checkAndReconnectWiFi
                  /\ gw' = [Quiet EXCEPT !.call = "reconnect", !.decoded = waterLevelCM,
                                         !.allFailed = ~wifiUp]
                  /\ UNCHANGED <<store, lastSuccessfulUpload>>
        ELSE /\ gw' = [Quiet EXCEPT !.call = "discard"]
             /\ UNCHANGED <<isWifiConnected, reconnectAttempts, pc, store,
                            lastSuccessfulUpload>>
  /\ UNCHANGED <<wifiUp, isFirebaseConnected, wifiAttempts, sinceWifiCheck>>
  /\ UNCHANGED <<clientVars, fixVars, samplerVars>>

\* loop(): the periodic check once the serial buffer is empty
PeriodicCheck ==
  /\ pc = "loop"
  /\ serial = <<>>
  /\ sinceWifiCheck > WifiCheckInterval
  /\ sinceWifiCheck' = 0
  /\ checkAndReconnectWiFi
  /\ gw' = [Quiet EXCEPT !.call = "periodic", !.allFailed = ~wifiUp]
  /\ UNCHANGED <<wifiUp, isFirebaseConnected, wifiAttempts, serial, lastSuccessfulUpload,
                 store>>
  /\ UNCHANGED <<clientVars, fixVars, samplerVars>>

\* one test of the retry loop of checkAndReconnectWiFi and one turn of it
ReconnPoll ==
  /\ pc = "reconnect_wait"
  /\ IF ReconnectRetry
     THEN /\ reconnectAttempts' = reconnectAttempts + 1
          /\ sinceWifiCheck' = Later(sinceWifiCheck, RetryDelay)
          /\ gw' = Quiet
          /\ UNCHANGED pc
     ELSE /\ pc' = "reconnect_done"
          /\ gw' = [Quiet EXCEPT !.allFailed = @ /\ ~wifiUp]
          /\ UNCHANGED <<reconnectAttempts, sinceWifiCheck>>
  /\ UNCHANGED <<wifiUp, isWifiConnected, isFirebaseConnected, wifiAttempts, serial,
                 lastSuccessfulUpload, store>>
  /\ UNCHANGED <<clientVars, fixVars, samplerVars>>

\* checkAndReconnectWiFi() after its retry loop
ReconnCheck ==
  /\ pc = "reconnect_done"
  /\ pc' = "loop"
  /\ isWifiConnected' = IF wifiUp THEN TRUE ELSE isWifiConnected
  /\ reconnectAttempts' = 0
  /\ gw' = [Quiet EXCEPT !.allFailed = FALSE]
  /\ UNCHANGED <<wifiUp, isFirebaseConnected, wifiAttempts, serial,
                 sinceWifiCheck, lastSuccessfulUpload, store>>
  /\ UNCHANGED <<clientVars, fixVars, samplerVars>>

\* loop() returns and is called again later
Elapse ==
  /\ pc = "loop"
  /\ serial = <<>>
  /\ sinceWifiCheck <= WifiCheckInterval
  /\ sinceWifiCheck' = Later(sinceWifiCheck, LoopMs)
  /\ gw' = Quiet
  /\ UNCHANGED <<pc, wifiUp, isWifiConnected, isFirebaseConnected, wifiAttempts,
                 reconnectAttempts, serial, lastSuccessfulUpload, store>>
  /\ UNCHANGED <<clientVars, fixVars, samplerVars>>

\* the sampler sends a line; a line sent while setup() or a retry loop runs
\* waits in the receive buffer and is read in loop()
SerialArrive ==
  \E line \in RelayLines :
    /\ pc = "loop"
    /\ gw.arrived < MaxLines
    /\ serial' = Append(serial, line)
    /\ gw' = [Quiet EXCEPT !.arrived = @ + 1]
    /\ UNCHANGED <<pc, wifiUp, isWifiConnected, isFirebaseConnected, wifiAttempts,
                   reconnectAttempts, sinceWifiCheck, lastSuccessfulUpload, store>>
    /\ UNCHANGED <<clientVars, fixVars, samplerVars>>

\* the radio gains or loses the access point
WifiChange ==
  /\ wifiUp' = ~wifiUp
  /\ gw' = Quiet
  /\ UNCHANGED <<pc, isWifiConnected, isFirebaseConnected, wifiAttempts, reconnectAttempts,
                 serial, sinceWifiCheck, lastSuccessfulUpload, store>>
  /\ UNCHANGED <<clientVars, fixVars, samplerVars>>

NextGateway ==
  \/ BootPoll
  \/ BootCheck
  \/ ProcessLine
  \/ PeriodicCheck
  \/ ReconnPoll
  \/ ReconnCheck
  \/ Elapse
  \/ SerialArrive
  \/ WifiChange

SpecGateway == InitGateway /\ [][NextGateway]_vars

\* ------------------------------------------------------------ sampler
\* #define MAX_DISTANCE_CM 20 of the sampler sketch, in centimetres
Sampler_MAX_DISTANCE_CM == 20
\* #define SAFE_THRESHOLD_CM 3.0 and WARNING_THRESHOLD_CM 6.0 of the sampler sketch
Sampler_SAFE_THRESHOLD_CM == 3
Sampler_WARNING_THRESHOLD_CM == 6
\* if (dist < 2 || dist > MAX_DISTANCE_CM)
MinEchoCm == 2
\* if (waterLevelCM > 15)
ContinuousAboveCm == 15
\* const unsigned long sendInterval = 100
sendInterval == 100
\* delay(50) at the end of loop()
LoopDelay == 50
\* pulseIn(ECHO_PIN, HIGH, 30000): the wait of a missing echo, in milliseconds
PulseTimeoutMs == 30
\* the delays of setup(), in milliseconds
SetupMs == 2000 + 3 * 300
\* int buzzerInterval = 1000
InitialBuzzerInterval == 1000

\* turns of loop() the sampler takes
MaxSamplerTicks == 3
\* the farthest echo, in centimetres
MaxEcho == 21

\* a pulse of 59 * k microseconds is an echo from k centimetres
MicrosPerCm == 59
\* pulse widths pulseIn can return: 0 is the timeout
Durations == {0} \cup {MicrosPerCm * k : k \in 1..MaxEcho}

\* C integer division: the quotient is cut towards zero
TruncDiv(a, b) ==
  IF (a >= 0) = (b > 0) \/ a = 0
  THEN (IF a >= 0 THEN a ELSE 0 - a) \div (IF b > 0 THEN b ELSE 0 - b)
  ELSE 0 - ((IF a >= 0 THEN a ELSE 0 - a) \div (IF b > 0 THEN b ELSE 0 - b))

\* an interpolation that rounds the quotient down
map_Floor(x, in_min, in_max, out_min, out_max) ==
  ((x - in_min) * (out_max - out_min)) \div (in_max - in_min) + out_min

\* the Arduino core's map(x, in_min, in_max, out_min, out_max)
map(x, in_min, in_max, out_min, out_max) ==
  TruncDiv((x - in_min) * (out_max - out_min), in_max - in_min) + out_min

\* int dist = duration * 0.034 / 2
EchoCm(duration) == (duration * 17) \div 1000

\* a measurement that accepts an echo from less than 2 cm
measureDistance_NoLowerBound(duration) ==
  IF duration = 0
  THEN [objectDetected |-> FALSE, value |-> Sampler_MAX_DISTANCE_CM]
  ELSE IF EchoCm(duration) > Sampler_MAX_DISTANCE_CM
  THEN [objectDetected |-> FALSE, value |-> Sampler_MAX_DISTANCE_CM]
  ELSE [objectDetected |-> TRUE, value |-> EchoCm(duration)]

\* measureDistance(): the value returned and the objectDetected it leaves
measureDistance(duration) ==
  IF duration = 0
  THEN [objectDetected |-> FALSE, value |-> Sampler_MAX_DISTANCE_CM]
  ELSE IF EchoCm(duration) < MinEchoCm \/ EchoCm(duration) > Sampler_MAX_DISTANCE_CM
  THEN [objectDetected |-> FALSE, value |-> Sampler_MAX_DISTANCE_CM]
  ELSE [objectDetected |-> TRUE, value |-> EchoCm(duration)]

\* updateDisplay(): the statusText it sets
SamplerStatus(level) ==
  IF level > Sampler_WARNING_THRESHOLD_CM THEN "Critical"
  ELSE IF level > Sampler_SAFE_THRESHOLD_CM THEN "Warning"
  ELSE "Safe"

updateDisplay(s) == [s EXCEPT !.statusText = SamplerStatus(s.waterLevelCM)]

\* updateIndicators(): the LED it lights
IndicatorOf(level) ==
  IF level <= Sampler_SAFE_THRESHOLD_CM THEN "GREEN_LED"
  ELSE IF level <= Sampler_WARNING_THRESHOLD_CM THEN "YELLOW_LED"
  ELSE "RED_LED"

updateIndicators(s) ==
  [s EXCEPT !.GREEN_LED = IndicatorOf(s.waterLevelCM) = "GREEN_LED",
            !.YELLOW_LED = IndicatorOf(s.waterLevelCM) = "YELLOW_LED",
            !.RED_LED = IndicatorOf(s.waterLevelCM) = "RED_LED"]

\* the toggle of updateBuzzer once buzzerInterval has passed
Beep(s, currentMillis) ==
  IF currentMillis - s.previousBuzzerMillis >= s.buzzerInterval
  THEN [s EXCEPT !.previousBuzzerMillis = currentMillis,
                 !.buzzerState = ~@,
                 !.BUZZER_PIN = ~s.buzzerState]
  ELSE s

\* the interval updateBuzzer computes for a level it beeps at
BuzzerIntervalOf(level) ==
  IF level <= Sampler_WARNING_THRESHOLD_CM
  THEN map(level, Sampler_SAFE_THRESHOLD_CM, Sampler_WARNING_THRESHOLD_CM, 1000, 200)
  ELSE map(level, Sampler_WARNING_THRESHOLD_CM, ContinuousAboveCm, 200, 50)

updateBuzzer(s, currentMillis) ==
  IF s.waterLevelCM <= Sampler_SAFE_THRESHOLD_CM
  THEN [s EXCEPT !.BUZZER_PIN = FALSE]
  ELSE IF s.waterLevelCM <= Sampler_WARNING_THRESHOLD_CM
  THEN Beep([s EXCEPT !.buzzerInterval = BuzzerIntervalOf(s.waterLevelCM)], currentMillis)
  ELSE IF s.waterLevelCM > ContinuousAboveCm
  THEN [s EXCEPT !.BUZZER_PIN = TRUE]
  ELSE Beep([s EXCEPT !.buzzerInterval = BuzzerIntervalOf(s.waterLevelCM)], currentMillis)

\* Serial.print(int) for a value that is not negative
RECURSIVE IntText(_)
IntText(n) ==
  IF n < 10 THEN <<Digits[n + 1]>> ELSE IntText(n \div 10) \o <<Digits[(n % 10) + 1]>>

TextWarning == <<"W", "a", "r", "n", "i", "n", "g">>
TextOf(status) ==
  CASE status = "Safe" -> TextSafe
    [] status = "Warning" -> TextWarning
    [] status = "Critical" -> TextCritical
    [] OTHER -> TextNoObject

\* Serial.print("WATER:"); Serial.print(waterLevelCM); Serial.print("cm:");
\* Serial.println(statusText): the carriage return of println stays on the line
Encode(level, statusText) ==
  TagWater \o IntText(level) \o Cm \o <<":">> \o TextOf(statusText) \o <<"\r">>

\* Serial.println("WATER:--cm:No Object")
NoObjectLine == TagWater \o <<"-", "-">> \o Cm \o <<":">> \o TextNoObject \o <<"\r">>

\* what loop() of the relay uploads for a line when both links are up
RelayUpload(line) ==
  LET data == trim(line)
      waterLevelCM == IF IsWaterLevelData(data) THEN DecodeLine(data) ELSE 0
  IN IF HasReading(waterLevelCM)
     THEN Some([waterLevel |-> PercentOf(waterLevelCM),
                distance |-> ReportedOf(waterLevelCM),
                status |-> StatusOf(waterLevelCM),
                decoded |-> waterLevelCM])
     ELSE None

\* what loop() of the second relay sketch uploads for a line when both links
\* are up: the line is not trimmed, the status is the text after a further
\* colon or else derived from the thresholds, and a value of 0 is uploaded too
SecondRelayUpload(data) ==
  IF startsWith(data, TagWater) /\ indexOf(data, ":", 6) > 0
  THEN LET firstSeparator == indexOf(data, ":", 6)
           waterLevelString == substring(data, 6, firstSeparator)
           waterLevelCM == IF waterLevelString # <<"-", "-">>
                           THEN toFloat(waterLevelString) ELSE 0
           secondSeparator == indexOf(data, ":", firstSeparator + 1)
           status == IF secondSeparator > 0
                     THEN substring(data, secondSeparator + 1, Len(data))
                     ELSE TextOf(StatusOf(waterLevelCM))
           waterLevelPercent == IF waterLevelCM > 0 THEN PercentOf(waterLevelCM) ELSE 0
       IN Some([waterLevel |-> waterLevelPercent,
                distance |-> ReportedOf(waterLevelCM),
                status |-> status,
                decoded |-> waterLevelCM])
  ELSE None

\* Serial.print("Distance: "); Serial.print(distance); Serial.println(" cm")
\* the line of the older sampler for the value the sent line carries
LegacyLine(valueText) == TagDistance \o <<" ">> \o valueText \o <<" ">> \o Cm \o <<"\r">>

\* the value field of the line the sampler sends
ValueText(s) == IF s.objectDetected THEN IntText(s.waterLevelCM) ELSE <<"-", "-">>

RelayIdle ==
  [stage |-> "idle", first |-> None, second |-> None,
   legacyFirst |-> None, legacySecond |-> None]

\* the sampler after setup()
InitSampler ==
  /\ ClientInit
  /\ FixIdle
  /\ GatewayOff
  /\ cl = [stage |-> "off"]
  /\ chart = [stage |-> "off"]
  /\ relay = RelayIdle
  /\ sampler = [stage |-> "run", ticks |-> 0, millis |-> SetupMs, duration |-> 0,
                objectDetected |-> FALSE, rawDistance |-> 0, waterLevelCM |-> 0,
                statusText |-> "No Object",
                GREEN_LED |-> FALSE, YELLOW_LED |-> FALSE, RED_LED |-> FALSE,
                BUZZER_PIN |-> FALSE, buzzerState |-> FALSE,
                previousBuzzerMillis |-> 0, buzzerInterval |-> InitialBuzzerInterval,
                lastSendTime |-> 0, sent |-> None]

\* one turn of loop() of the sampler, the echo being an input
SamplerLoop ==
  \E duration \in Durations :
    /\ sampler.stage = "run"
    /\ sampler.ticks < MaxSamplerTicks
    /\ LET m == measureDistance(duration)
           rawDistance == IF m.objectDetected /\ m.value > Sampler_MAX_DISTANCE_CM
                          THEN Sampler_MAX_DISTANCE_CM ELSE m.value
           currentMillis == sampler.millis + (IF duration = 0 THEN PulseTimeoutMs ELSE 0)
           due == currentMillis - sampler.lastSendTime >= sendInterval
           measured ==
             [sampler EXCEPT
                !.ticks = @ + 1,
                !.duration = duration,
                !.objectDetected = m.objectDetected,
                !.rawDistance = rawDistance,
                !.waterLevelCM = IF m.objectDetected
                                 THEN Sampler_MAX_DISTANCE_CM - rawDistance ELSE 0,
                !.statusText = IF m.objectDetected THEN @ ELSE "No Object"]
           shown ==
             IF m.objectDetected
             THEN updateBuzzer(updateIndicators(updateDisplay(measured)), currentMillis)
             ELSE [measured EXCEPT !.GREEN_LED = FALSE, !.YELLOW_LED = FALSE,
                                   !.RED_LED = FALSE, !.BUZZER_PIN = FALSE]
           line == IF m.objectDetected
                   THEN Encode(shown.waterLevelCM, shown.statusText)
                   ELSE NoObjectLine
       IN /\ sampler' = [shown EXCEPT
                           !.lastSendTime = IF due THEN currentMillis ELSE @,
                           !.sent = IF due THEN Some(line) ELSE None,
                           !.millis = currentMillis + LoopDelay]
          /\ relay' = RelayIdle
    /\ UNCHANGED <<cl, chart>>
    /\ UNCHANGED <<clientVars, fixVars, gatewayVars>>

\* the line the sampler sent, and the legacy line for the same value, reach a
\* relay whose two links are up
RelayLine ==
  /\ sampler.stage = "run"
  /\ sampler.sent # None
  /\ relay.stage = "idle"
  /\ relay' = [stage |-> "decoded",
               first |-> RelayUpload(sampler.sent[1]),
               second |-> SecondRelayUpload(sampler.sent[1]),
               legacyFirst |-> RelayUpload(LegacyLine(ValueText(sampler))),
               legacySecond |-> SecondRelayUpload(LegacyLine(ValueText(sampler)))]
  /\ UNCHANGED <<sampler, cl, chart>>
  /\ UNCHANGED <<clientVars, fixVars, gatewayVars>>

NextSampler == SamplerLoop \/ RelayLine

SpecSampler == InitSampler /\ [][NextSampler]_vars

\* ------------------------------------------------------------ classification
\* measured values in hundredths of a centimetre, on and around the thresholds
ClassifySamples ==
  {1, 100, 200, 299, 300, 301, 450, 599, 600, 601, 900, 1000, 1001, 1500, 1800, 2500}

\* getStatusFromDistance(distance) of the dashboard, the distance in hundredths
getStatusFromDistance(distance) ==
  IF distance <= 300 THEN "normal"
  ELSE IF distance <= 600 THEN "warning"
  ELSE "danger"

\* getStatusFromWaterLevel(waterLevel) of the dashboard:
\* getStatusFromDistance((waterLevel / 100) * 8)
App_getStatusFromWaterLevel(waterLevel) ==
  IF waterLevel.t # "num" THEN "unknown"
  ELSE getStatusFromDistance(waterLevel.v * 8)

InitClassify ==
  /\ ClientInit
  /\ FixIdle
  /\ GatewayOff
  /\ sampler = [stage |-> "off"]
  /\ relay = [stage |-> "off"]
  /\ chart = [stage |-> "off"]
  /\ \E a \in ClassifySamples, b \in ClassifySamples :
       cl = [stage |-> "input", a |-> a, b |-> b,
             relayA |-> "", relayB |-> "", samplerA |-> "", indicatorA |-> "",
             percentA |-> 0, dashboardA |-> ""]

\* the relay classifies both values; the sampler, which measures whole
\* centimetres, classifies the first when it is one; the dashboard classifies
\* the percentage the relay uploads for the first
Classify ==
  /\ cl.stage = "input"
  /\ cl' = [cl EXCEPT
              !.stage = "classified",
              !.relayA = StatusOf(cl.a),
              !.relayB = StatusOf(cl.b),
              !.samplerA = IF cl.a % 100 = 0 THEN SamplerStatus(cl.a \div 100) ELSE "",
              !.indicatorA = IF cl.a % 100 = 0 THEN IndicatorOf(cl.a \div 100) ELSE "",
              !.percentA = PercentOf(cl.a),
              !.dashboardA = App_getStatusFromWaterLevel(Num(PercentOf(cl.a)))]
  /\ UNCHANGED <<sampler, relay, chart>>
  /\ UNCHANGED <<clientVars, fixVars, gatewayVars>>

NextClassify == Classify

SpecClassify == InitClassify /\ [][NextClassify]_vars

\* ============================================================ claims
\* C1 (as stated): when all the updates received so far arrived within one
\* debounce window (less than 2000 ms after the first of them), the debounced
\* emitter has emitted at most once.
C1_OneEmissionPerWindow ==
  (deb.firstAt >= 0 /\ deb.oneWindow) => deb.emits <= 1

\* C1 (amended): the emitter is a leading-edge throttle.  An update that arrives
\* 2000 ms or more after the last emission is emitted at once; the updates that
\* arrive less than 2000 ms after the last emission are buffered (none is emitted
\* on arrival, one timer is armed and holds the latest merged state) and the
\* timer's single emission carries the merged state of the last of them.
C1_ThrottleCollapses ==
  /\ [](timers # {} => /\ Cardinality(timers) = 1
                       /\ pendingUpdate = Some(allReadings)
                       /\ deb.buffered >= 1)
  /\ [][ /\ (deb'.buffered > deb.buffered) =>
              /\ consumer'.out = None
              /\ MsLt(Now, MsAdd(lastUpdateTime, UPDATE_DEBOUNCE_TIME))
         /\ (consumer'.kind = "immediate") =>
              /\ consumer'.out = Some(allReadings')
              /\ MsGeq(Now, MsAdd(lastUpdateTime, UPDATE_DEBOUNCE_TIME))
         /\ (consumer'.kind = "timer") =>
              /\ consumer'.out = Some(allReadings)
              /\ deb.buffered >= 1
              /\ deb'.emits = deb.emits + 1
              /\ timers' = {}
              /\ pendingUpdate' = None ]_vars

\* C1 witness: two updates arrived inside the window an earlier emission opened,
\* and one timer emission delivered them.
C1_Witness ==
  consumer.kind = "timer" /\ deb.covered >= 2 /\ deb.emits = 1

\* C2: once the unsubscribe handle has been called the consumer callback is
\* never invoked again.
C2_NoCallbackAfterUnsubscribe == ~consumer.late

\* C3 (as stated): a step that ends a pending update (the armed timer goes away)
\* hands the pending data to the consumer.
C3_PendingAlwaysDelivered ==
  [][(timers # {} /\ timers' = {}) => consumer'.out # None]_vars

\* C3 (amended): a pending update is delivered when its timer fires, or is
\* superseded by a newer update that is emitted at once; when the unsubscribe
\* handle is called the timer is cleared and the pending update is discarded
\* without an emission.
C3_PendingDeliveredOrDiscarded ==
  /\ [](timers # {} => pendingUpdate # None)
  /\ [](consumer.unsub => timers = {})
  /\ [][(timers # {} /\ timers' = {}) =>
          \/ consumer'.out = Some(allReadings')
          \/ /\ consumer'.unsub
             /\ listening' \cap {"current", "history"} = {}
             /\ consumer'.out = None
             /\ pendingUpdate' = pendingUpdate ]_vars

\* C3 witness: an update was pending when the handle was called; it stays in the
\* buffer, undelivered, with no timer armed.
C3_Witness ==
  consumer.unsub /\ pendingUpdate # None /\ timers = {} /\ consumer.out = None

\* ------------------------------------------------------------ merge order
\* the timestamp fixTimestamp gives does not depend on the receiver's clock
ClockFree(ts) == fixTimestamp(ts, MsZero) = fixTimestamp(ts, StartTime)
AllClockFree ==
  /\ merged.cur.exists => ClockFree(merged.cur.timestamp)
  /\ \A i \in 1..Len(merged.hist) : ClockFree(merged.hist[i].data.timestamp)

\* the list the order "current-slot updates first, history snapshots after" ends in
CurrentFirstList ==
  LET afterCurrent == IF merged.cur.exists
                      THEN <<MakeReading(CURRENT_ID, merged.cur, Now)>> ELSE <<>>
      validEntries == ValidEntries(merged.hist, Now)
  IN IF Len(validEntries) > 0 THEN MergeHistory(afterCurrent, validEntries)
     ELSE afterCurrent

\* C4: whatever the order in which the two handlers received the updates, the
\* merged list is the one the order "current first, history after" produces.
C4_OrderIndependent ==
  AllClockFree => allReadings = CurrentFirstList

\* C5: allReadings is ordered newest-first by corrected timestamp.
C5_NewestFirst ==
  \A i \in 1..(Len(allReadings) - 1) :
    MsGeq(allReadings[i].timestamp, allReadings[i + 1].timestamp)

\* ------------------------------------------------------------ timestamps
PlausibleMs(ts) == ts.t = "num" /\ MsGt(ts, Ms(1577836800, 0))
AllPlausible(list) == \A i \in 1..Len(list) : PlausibleMs(list[i].timestamp)

\* C6 (amended): every reading an emission of subscribeToWaterLevelUpdates
\* (the initial-fetch emission included) or of subscribeToMinuteByMinuteData
\* hands to its consumer has a plausible epoch-millisecond timestamp.
C6_EmittedTimestampsPlausible ==
  /\ consumer.out # None => AllPlausible(consumer.out[1])
  /\ minute.out # None => AllPlausible(minute.out[1])

\* C6 (as stated): the same, and also for the Reading getCurrentWaterLevel returns.
C6_EveryReadingPlausible ==
  /\ C6_EmittedTimestampsPlausible
  /\ fetch.value # None => PlausibleMs(fetch.value[1].timestamp)

\* C6 witness: an emission carries a reading whose stored timestamp was a
\* seconds-since-boot value, replaced by the receiver's clock.
C6_Witness ==
  /\ consumer.kind = "immediate"
  /\ \E i \in 1..Len(consumer.out[1]) :
       /\ consumer.out[1][i].id = CURRENT_ID
       /\ merged.cur = CurBoot
       /\ consumer.out[1][i].timestamp = Now

\* ------------------------------------------------------------ fixTimestamp
\* t as a number of seconds when it is below the saturation bound
IsNumber(t) == t.t = "num"
AboveMs2020(t) == t.k > 1577836800 \/ (t.k = 1577836800 /\ t.r > 0)
InSecondsRange(t) ==
  /\ t.k < 2000000
  /\ t.k * 1000 + t.r > 1577836800
  /\ t.k * 1000 + t.r < 2000000000

\* C7: fixTimestamp follows the decision table in order: t > 1577836800000 is
\* returned unchanged; else 1577836800 < t < 2000000000 gives t * 1000; anything
\* else (t = 1000, undefined, NaN) gives the receiver's clock.
C7_DecisionTable ==
  fx.stage \in {"once", "twice"} =>
    /\ (IsNumber(fx.t) /\ AboveMs2020(fx.t)) => fx.once = fx.t
    /\ (IsNumber(fx.t) /\ ~AboveMs2020(fx.t) /\ InSecondsRange(fx.t)) =>
         fx.once = Ms(fx.t.k * 1000 + fx.t.r, 0)
    /\ (~IsNumber(fx.t) \/ (~AboveMs2020(fx.t) /\ ~InSecondsRange(fx.t))) =>
         fx.once = fx.now
    /\ fx.t = Ms(1, 0) => fx.once = fx.now

\* C7 witness: the stored value 1000 (seconds since boot) was corrected.
C7_Witness ==
  fx.stage = "once" /\ fx.t = Ms(1, 0) /\ fx.once = fx.now

C9_BoundedRetries ==
  /\ [](wifiAttempts \in 0..30 /\ reconnectAttempts \in 0..10)
  /\ [][ /\ (pc = "setup_done" /\ pc' = "loop" /\ gw.allFailed /\ ~wifiUp) =>
               (wifiAttempts = 30 /\ ~isWifiConnected')
         /\ (pc = "reconnect_done" /\ pc' = "loop" /\ gw.allFailed /\ ~wifiUp) =>
               (reconnectAttempts = 10 /\ ~isWifiConnected')
         /\ (pc = "setup_wait" /\ wifiUp' = wifiUp) =>
               (pc' = "setup_done" \/ wifiAttempts' = wifiAttempts + 1)
         /\ (pc = "reconnect_wait" /\ wifiUp' = wifiUp) =>
               (pc' = "reconnect_done" \/ reconnectAttempts' = reconnectAttempts + 1) ]_vars

\* C9 witness: checkAndReconnectWiFi has run its loop to the end with every
\* poll failing, after a setup whose polls all failed too.
C9_Witness ==
  /\ gw.bootFailed
  /\ pc = "reconnect_done"
  /\ reconnectAttempts = 10
  /\ gw.allFailed
  /\ ~wifiUp
  /\ ~isWifiConnected
  /\ ~isFirebaseConnected

C11_SuccessNeedsBothWrites ==
  gw.call = "upload" =>
    /\ (gw.reported = "Upload successful") = (gw.wrote = "both")
    /\ (gw.wrote # "both") => gw.reported = "Upload failed"

\* ------------------------------------------------------------ gateway link checks
\* C12: the periodic check re-verifies both links: a network link found down
\* becomes Disconnected and its bounded reconnect starts, and a store session
\* that is Disconnected while the network link is up is re-attempted (the
\* check leaves it Connected or leaves the relay trying to connect it).
C12_BothLinksReverified ==
  [][ /\ (gw'.call = "periodic" /\ ~wifiUp) =>
            (~isWifiConnected' /\ pc' = "reconnect_wait")
      /\ (gw'.call = "periodic" /\ wifiUp /\ ~isFirebaseConnected) =>
            (isFirebaseConnected' \/ pc' # "loop") ]_vars

\* ------------------------------------------------------------ gateway history
\* C13: a history record, once written, is never replaced or removed: every
\* upload writes under a key no earlier upload used.
C13_HistoryImmutable ==
  [][\A e \in store.history : e \in store'.history]_vars

\* ------------------------------------------------------------ gateway timestamps
\* C14: the timestamp of every uploaded record, in the history and in the
\* current slot, is the NTP clock's epoch seconds times 1000.
C14_TimestampIsEpochMs ==
  /\ \A e \in store.history : \E epoch \in EpochTimes : e.value.timestamp = Ms(epoch, 0)
  /\ store.current # <<>> => \E epoch \in EpochTimes : store.current[1].timestamp = Ms(epoch, 0)

\* ------------------------------------------------------------ severity
Expected(d) ==
  IF d <= 300 THEN "Safe" ELSE IF d <= 600 THEN "Warning" ELSE "Critical"
Rank(status) ==
  CASE status = "Safe" -> 0 [] status = "Warning" -> 1 [] status = "Critical" -> 2
LedOf(status) ==
  CASE status = "Safe" -> "GREEN_LED" [] status = "Warning" -> "YELLOW_LED"
    [] status = "Critical" -> "RED_LED"

\* C15: the severity of a measured value d is Safe for d <= 3.0, Warning for
\* 3.0 < d <= 6.0 and Critical for d > 6.0 (2.0 is Safe, 9.0 is Critical); it
\* does not decrease when d grows; the sampler's status text and LED and the
\* relay's status agree on it.
C15_SeverityStepFunction ==
  cl.stage = "classified" =>
    /\ cl.relayA = Expected(cl.a)
    /\ cl.relayB = Expected(cl.b)
    /\ cl.a <= cl.b => Rank(cl.relayA) <= Rank(cl.relayB)
    /\ cl.a = 200 => cl.relayA = "Safe"
    /\ cl.a = 900 => cl.relayA = "Critical"
    /\ cl.a % 100 = 0 =>
          /\ cl.samplerA = Expected(cl.a)
          /\ cl.indicatorA = LedOf(Expected(cl.a))

\* C15 witness: 3.0 and 3.01 have been classified, the first as Safe by the
\* sampler and the relay, the second as Warning.
C15_Witness ==
  /\ cl.stage = "classified"
  /\ cl.a = 300
  /\ cl.b = 301
  /\ cl.relayA = "Safe"
  /\ cl.samplerA = "Safe"
  /\ cl.indicatorA = "GREEN_LED"
  /\ cl.relayB = "Warning"

\* ------------------------------------------------------------ sampler: invalid echo
\* C16: after a turn of loop() whose echo timed out (duration 0) or whose
\* distance is below 2 cm or above 20 cm, objectDetected is false, the
\* distance is MAX_DISTANCE_CM, the status is "No Object", the three LEDs and
\* the buzzer are off, and a line sent in that turn is the no-object line.
C16_InvalidMeasurement ==
  (/\ sampler.ticks > 0
   /\ \/ sampler.duration = 0
      \/ (sampler.duration * 17) \div 1000 < 2
      \/ (sampler.duration * 17) \div 1000 > 20) =>
    /\ ~sampler.objectDetected
    /\ sampler.rawDistance = 20
    /\ sampler.statusText = "No Object"
    /\ ~sampler.GREEN_LED /\ ~sampler.YELLOW_LED /\ ~sampler.RED_LED
    /\ ~sampler.BUZZER_PIN
    /\ sampler.sent # None => sampler.sent[1] = NoObjectLine

\* C16 witness: the echo timed out in a turn that follows one in which the
\* buzzer was switched on; the buzzer pin is low and the no-object line is sent.
C16_Witness ==
  /\ sampler.ticks > 1
  /\ sampler.duration = 0
  /\ sampler.buzzerState
  /\ ~sampler.BUZZER_PIN
  /\ ~sampler.objectDetected
  /\ sampler.statusText = "No Object"
  /\ sampler.sent = Some(NoObjectLine)

\* ------------------------------------------------------------ no object end to end
\* C17: the line the sampler sends for an invalid measurement is never
\* turned into an uploaded record with status Safe, by either relay sketch.
C17_NoObjectNeverSafe ==
  (relay.stage = "decoded" /\ ~sampler.objectDetected) =>
    /\ relay.first = None \/ relay.first[1].status # "Safe"
    /\ relay.second = None \/ relay.second[1].status # TextSafe

C19_MalformedLineDiscarded ==
  /\ \A line \in MalformedLines : RelayUpload(line) = None
  /\ [][ (/\ serial # <<>>
          /\ Head(serial) \in MalformedLines
          /\ gw'.call \in {"upload", "reconnect", "discard"}) =>
            /\ gw'.call = "discard"
            /\ serial' = Tail(serial)
            /\ pc' = "loop"
            /\ UNCHANGED <<store, lastSuccessfulUpload, isWifiConnected,
                           isFirebaseConnected>> ]_vars

\* C19 witness: with both links up a malformed line has just been discarded
\* and the next line waits in the receive buffer.
C19_Witness ==
  /\ gw.call = "discard"
  /\ pc = "loop"
  /\ isWifiConnected /\ isFirebaseConnected /\ wifiUp
  /\ serial \in {<<LineSafe>>, <<LineLegacyFar>>}
  /\ store.history = {}

\* ------------------------------------------------------------ line round trip
\* C20: the relay decodes the line of every valid measurement (level 0..18
\* with its status) into the same level and the same status.
C20_RoundTrip ==
  (relay.stage = "decoded" /\ sampler.objectDetected) =>
    /\ relay.first # None
    /\ relay.first[1].decoded = 100 * sampler.waterLevelCM
    /\ relay.first[1].status = sampler.statusText

\* ------------------------------------------------------------ relay: legacy shape
\* the (value, status) a relay sketch decodes from a line, if it uploads
Logical(upload) ==
  IF upload = None THEN None
  ELSE Some(<<upload[1].decoded, upload[1].status>>)

\* the same with the status of the second sketch, which is text, as a name
LogicalSecond(upload) ==
  IF upload = None THEN None
  ELSE Some(<<upload[1].decoded,
              IF upload[1].status = TextSafe THEN "Safe"
              ELSE IF upload[1].status = TextWarning THEN "Warning"
              ELSE "Critical">>)

\* C21: for every value, each relay sketch decodes the legacy line
\* 'Distance: v cm' to the same (value, status) as the line 'WATER:v...' of
\* the current shape, and uploads the one exactly when it uploads the other.
C21_LegacyEquivalent ==
  relay.stage = "decoded" =>
    /\ Logical(relay.legacyFirst) = Logical(relay.first)
    /\ LogicalSecond(relay.legacySecond) = LogicalSecond(relay.second)

\* the first sketch alone treats both shapes alike
C21_FirstSketchEquivalent ==
  relay.stage = "decoded" => relay.legacyFirst = relay.first

\* the first sketch uploads a legacy line
C21_FirstSketchUploadsLegacy ==
  relay.stage = "decoded" /\ relay.legacyFirst # None /\ relay.first # None

\* ------------------------------------------------------------ client: current slot
\* the number of readings of the list that carry the id of the current slot
CurrentCount(list) == Cardinality({i \in 1..Len(list) : list[i].id = CURRENT_ID})

\* a step of the current handler that accepted its record
CurrentAccepted ==
  /\ events' = events + 1
  /\ deb' # deb
  /\ merged'.last = "current"

\* C22: allReadings holds at most one reading with the id 'current-reading',
\* and an accepted current-slot update of a list that holds one puts the new
\* reading in its place and leaves the length of the list as it was.
C22_OneCurrentEntry ==
  /\ [](CurrentCount(allReadings) <= 1)
  /\ [][(CurrentAccepted /\ HasCurrent(allReadings)) =>
          /\ Len(allReadings') = Len(allReadings)
          /\ CurrentCount(allReadings') = 1
          /\ allReadings'[FindCurrent(allReadings')] =
               MakeReading(CURRENT_ID, merged'.cur, Now)]_vars

\* two current-slot updates were accepted in a row, the second one buffered,
\* and the list still holds the one entry
C22_Witness ==
  /\ merged.last = "current"
  /\ merged.hist = <<>>
  /\ deb.emits = 1
  /\ deb.buffered = 1
  /\ Len(allReadings) = 1
  /\ allReadings[1] = MakeReading(CURRENT_ID, CurB, Now)

\* ------------------------------------------------------------ client: duplicates
\* C23: allReadings never holds two readings with the same id nor two
\* readings with the same corrected timestamp.
C23_Deduplicated ==
  \A i, j \in 1..Len(allReadings) :
    i # j => /\ allReadings[i].id # allReadings[j].id
             /\ allReadings[i].timestamp # allReadings[j].timestamp

\* the ids alone are distinct
C23_DistinctIds ==
  \A i, j \in 1..Len(allReadings) : i # j => allReadings[i].id # allReadings[j].id

\* ------------------------------------------------------------ client: spacing
\* C24: an emission to the consumer, whichever of the immediate emission, the
\* timer's emission and the emission of the initial fetch it is, comes at
\* least UPDATE_DEBOUNCE_TIME after the emission before it.
C24_EmissionsSpaced ==
  [][(consumer'.out # None /\ consumer.at >= 0) =>
        clock' - consumer.at >= UPDATE_DEBOUNCE_TIME]_vars

\* while the initial fetch is outstanding, the emissions of debouncedCallback
\* and of its timer keep the spacing
C24_DebouncedSpaced ==
  [][(consumer'.out # None /\ fetch'.state = "pending" /\ consumer.at >= 0) =>
        clock' - consumer.at >= UPDATE_DEBOUNCE_TIME]_vars

\* an emission of debouncedCallback followed an earlier emission
C24_SecondEmission ==
  consumer.out # None /\ consumer.kind = "timer" /\ deb.emits >= 2

\* ------------------------------------------------------------ client: idempotence
\* a step of the history handler that accepted its snapshot
HistoryAccepted ==
  /\ events' = events + 1
  /\ deb' # deb
  /\ merged'.last = "history"

\* the handler that ran last receives the same value once more
SameCurrentAgain == CurrentAccepted /\ merged.last = "current" /\ merged'.cur = merged.cur
SameHistoryAgain == HistoryAccepted /\ merged.last = "history" /\ merged'.hist = merged.hist

\* C25: delivering the same current-slot update, or the same history
\* snapshot, a second time in succession leaves allReadings as the first
\* delivery left it.
C25_MergeIdempotent ==
  [][(SameCurrentAgain \/ SameHistoryAgain) => allReadings' = allReadings]_vars

\* the second delivery leaves the list alone when the timestamps of the
\* delivered records do not depend on the receiver's clock
C25_IdempotentClockFree ==
  [][(/\ SameCurrentAgain \/ SameHistoryAgain
      /\ \/ SameCurrentAgain /\ ClockFree(merged.cur.timestamp)
         \/ SameHistoryAgain /\ \A i \in 1..Len(merged.hist) :
                                   ClockFree(merged.hist[i].data.timestamp))
       => allReadings' = allReadings]_vars

\* ------------------------------------------------------------ client: cancellation
\* C26: in every state the unsubscribe handle can be called in, calling it
\* twice gives the state calling it once gives, with both listeners detached
\* and no timer armed; and once it has been called the subscription stays in
\* a state that a further call leaves as it is.
C26_CancelIdempotent ==
  /\ unsubscribe(unsubscribe(HandleState)) = unsubscribe(HandleState)
  /\ unsubscribe(HandleState).listening \cap {"current", "history"} = {}
  /\ unsubscribe(HandleState).timers = {}
  /\ consumer.unsub => unsubscribe(HandleState) = HandleState

\* the handle was called while an update was pending
C26_Witness ==
  /\ consumer.unsub
  /\ pendingUpdate # None
  /\ pendingUpdateTimer # 0
  /\ timers = {}

\* ------------------------------------------------------------ client: implausible timestamps
\* C29: the current handler never leaves a record aside for its timestamp,
\* and a record it accepts whose stored timestamp is implausible enters
\* allReadings with the receiver's time as its timestamp.
C29_ImplausibleAccepted ==
  /\ [](consumer.dropped # "timestamp")
  /\ [][(CurrentAccepted /\ ~ClockFree(merged'.cur.timestamp)) =>
          allReadings'[FindCurrent(allReadings')].timestamp = Now]_vars

\* a record with a non-zero implausible timestamp is accepted and re-stamped
C29_NonZeroReplaced ==
  [][(CurrentAccepted /\ ~ClockFree(merged'.cur.timestamp)) =>
        /\ allReadings'[FindCurrent(allReadings')].timestamp = Now
        /\ ~deb'.threw]_vars

\* a record with a seconds-since-boot timestamp was emitted with the
\* receiver's time
C29_BootEmitted ==
  /\ merged.cur = CurBoot
  /\ consumer.out # None
  /\ \E i \in 1..Len(consumer.out[1]) :
       /\ consumer.out[1][i].id = CURRENT_ID
       /\ consumer.out[1][i].timestamp = Now

\* ------------------------------------------------------------ client: one timer
\* C30: at most one debounce timer is armed at any moment and it is the one
\* pendingUpdateTimer names; an update that is buffered removes the armed
\* timer and arms one new timer; and the timer's callback always finds in
\* pendingUpdate the list the most recent update produced, which it emits.
C30_SingleWriter ==
  /\ [](Cardinality(timers) <= 1)
  /\ [](\A t \in timers : t.id = pendingUpdateTimer)
  /\ [](~deb.threw)
  /\ [][(deb'.buffered > deb.buffered) =>
          /\ timers \cap timers' = {}
          /\ Cardinality(timers') = 1
          /\ pendingUpdate' = Some(allReadings')]_vars
  /\ [][(consumer'.kind = "timer" \/ deb'.threw # deb.threw) =>
          /\ pendingUpdate # None
          /\ pendingUpdate = Some(allReadings)
          /\ consumer'.out = pendingUpdate]_vars

\* an armed timer was replaced by a later update, and the timer that fired
\* after an immediate emission delivered both buffered updates
C30_Witness ==
  /\ consumer.kind = "timer"
  /\ deb.covered >= 2
  /\ deb.emits = 2
  /\ timers = {}

\* ------------------------------------------------------------ dashboard chart
\* Times are seconds of the local clock; the stored milliseconds play no part
\* in the grouping, which zeroes seconds and milliseconds.
LabelCount == 72
BucketMinutes == 5
WindowHours == 6
MaxChartTicks == 3
ChartStart == 12 * 3600
ChartStep == 2 * 60 + 10

\* date.setMinutes(Math.floor(date.getMinutes() / 5) * 5); setSeconds(0); setMilliseconds(0)
Floor5(t) == t - (t % (BucketMinutes * 60))
\* now.setSeconds(0); now.setMilliseconds(0)
FloorMinute(t) == t - (t % 60)

\* generateTimeLabels(): the timestamp of label i, i = 0 .. 71
LabelAt(i, now_) == Floor5(now_ - WindowHours * 3600) + i * BucketMinutes * 60

MinutePoint(wl, ts) == [waterLevel |-> wl, timestamp |-> ts, id |-> "minute"]

\* what subscribeToMinuteByMinuteData can hand over: valid entries, newest first
ChartHistories ==
  { <<>>,
    <<MinutePoint(60, ChartStart - 540), MinutePoint(30, ChartStart - 1180)>>,
    <<MinutePoint(80, ChartStart - 420), MinutePoint(20, ChartStart - 540)>>,
    <<MinutePoint(50, ChartStart - 120), MinutePoint(10, ChartStart - 3540)>> }
ChartLevels == {20, 80}

\* the keys of readingsMap
ReadingKeys(history, currentWaterLevel, now_) ==
  {Floor5(history[i].timestamp) : i \in 1..Len(history)} \cup
  (IF currentWaterLevel # None THEN {FloorMinute(now_)} ELSE {})

\* readingsMap[key]: forEach assigns in the order of the array, so the entry
\* of a key is the last reading of the array that falls on it; the current
\* reading is assigned after all of them
ReadingAt(history, currentWaterLevel, now_, key) ==
  IF currentWaterLevel # None /\ key = FloorMinute(now_)
  THEN [waterLevel |-> currentWaterLevel[1], timestamp |-> FloorMinute(now_),
        id |-> "current-realtime"]
  ELSE LET last == CHOOSE i \in 1..Len(history) :
                     /\ Floor5(history[i].timestamp) = key
                     /\ \A j \in (i + 1)..Len(history) : Floor5(history[j].timestamp) # key
       IN history[last]

SetMax(S) == CHOOSE x \in S : \A y \in S : y <= x

\* Math.min(((reading.waterLevel / 100) * 8).toFixed(1), 8), in tenths, for
\* the level num / den
Shown(num, den) == Min2((16 * num + 10 * den) \div (20 * den), 80)

\* the data point of one label; the level is the fraction num / den
ChartPoint(history, waterLevelHistoryEmpty, currentWaterLevel, now_, index) ==
  LET label == LabelAt(index, now_)
      keys == ReadingKeys(history, currentWaterLevel, now_)
      before == {time \in keys : time < label}
  IN IF label \in keys
     THEN LET reading == ReadingAt(history, currentWaterLevel, now_, label)
          IN [kind |-> reading.id, from |-> reading.timestamp, ratio |-> <<0, 1>>,
              num |-> reading.waterLevel, den |-> 1, shown |-> Shown(reading.waterLevel, 1)]
     ELSE IF /\ currentWaterLevel # None
             /\ label > LabelAt(0, now_)
             /\ label <= now_
             /\ before # {}
             /\ SetMax(before) > 0
     THEN LET mostRecentReadingTime == SetMax(before)
              mostRecentReading ==
                ReadingAt(history, currentWaterLevel, now_, mostRecentReadingTime)
              timeDiff == now_ - mostRecentReadingTime
              timePosition == label - mostRecentReadingTime
              p == IF timeDiff > 0 THEN timePosition ELSE 0
              d == IF timeDiff > 0 THEN timeDiff ELSE 1
              num == mostRecentReading.waterLevel * d
                     + (currentWaterLevel[1] - mostRecentReading.waterLevel) * p
          IN [kind |-> "interpolated", from |-> mostRecentReading.timestamp,
              ratio |-> <<p, d>>, num |-> num, den |-> d, shown |-> Shown(num, d)]
     ELSE IF Len(history) = 0 /\ waterLevelHistoryEmpty
     THEN [kind |-> "sample", from |-> 0, ratio |-> <<0, 1>>, num |-> 0, den |-> 1,
           shown |-> 0]
     ELSE [kind |-> "null", from |-> 0, ratio |-> <<0, 1>>, num |-> 0, den |-> 1,
           shown |-> 0]

\* createChartDataPoints(): one point per label
createChartDataPoints(c) ==
  [i \in 1..LabelCount |->
     ChartPoint(c.minuteByMinuteHistory, c.waterLevelHistoryEmpty, c.currentWaterLevel,
                c.now, i - 1)]

\* the key recordMinuteByMinuteData writes under: the minute of the timestamp
TimeKey(t) == FloorMinute(t)

\* set(ref(database, `minuteByMinuteData/${timeKey}`), {...})
PutMinute(store_, reading) ==
  {e \in store_ : e.key # TimeKey(reading.timestamp)} \cup
  {[key |-> TimeKey(reading.timestamp), waterLevel |-> reading.waterLevel,
    timestamp |-> reading.timestamp, deviceId |-> reading.deviceId]}

\* the dashboard when App is mounted, before any data arrived
InitChart ==
  /\ ClientInit
  /\ FixIdle
  /\ GatewayOff
  /\ sampler = [stage |-> "off"]
  /\ relay = [stage |-> "off"]
  /\ cl = [stage |-> "off"]
  /\ \E empty \in BOOLEAN :
       chart = [stage |-> "idle", ticks |-> 0, now |-> ChartStart,
                currentWaterLevel |-> None, minuteByMinuteHistory |-> <<>>,
                waterLevelHistoryEmpty |-> empty, dataPoints |-> <<>>,
                minuteByMinuteData |-> {},
                alertStatus |-> "unknown", showModal |-> FALSE, captured |-> <<>>]

Stale(c) == [c EXCEPT !.stage = "idle", !.dataPoints = <<>>]

\* the callback of subscribeToMinuteByMinuteData: setMinuteByMinuteHistory(data)
\* when the modal is shown or the newest timestamp differs from the one of the
\* history the effect captured when it ran
ChartMinuteData ==
  \E data \in ChartHistories :
    /\ chart.stage # "off"
    /\ chart' = IF \/ chart.showModal
                   \/ Len(chart.captured) = 0
                   \/ /\ Len(data) > 0
                      /\ data[1].timestamp # chart.captured[1].timestamp
                THEN [Stale(chart) EXCEPT !.minuteByMinuteHistory = data]
                ELSE Stale(chart)
    /\ UNCHANGED <<sampler, relay, cl>>
    /\ UNCHANGED <<clientVars, fixVars, gatewayVars>>

\* an updateDataSmoothly that sets the alert status in the open views too
updateDataSmoothly_Always(c, level) ==
  [c EXCEPT !.currentWaterLevel = Some(level),
            !.alertStatus = App_getStatusFromWaterLevel(Num(level))]

\* updateDataSmoothly(data), the newest reading of data having this level:
\* with the modal or the historical view open only currentWaterLevel is set
updateDataSmoothly(c, level) ==
  IF c.showModal
  THEN [c EXCEPT !.currentWaterLevel = Some(level)]
  ELSE [c EXCEPT !.currentWaterLevel = Some(level),
                 !.waterLevelHistoryEmpty = FALSE,
                 !.alertStatus = App_getStatusFromWaterLevel(Num(level))]

\* an emission of subscribeToWaterLevelUpdates reaches the dashboard
ChartLevel ==
  \E level \in ChartLevels :
    /\ chart.stage # "off"
    /\ chart' = updateDataSmoothly(Stale(chart), level)
    /\ UNCHANGED <<sampler, relay, cl>>
    /\ UNCHANGED <<clientVars, fixVars, gatewayVars>>

\* the trend modal or the historical view is opened or closed; the effect
\* runs again and captures the state
ToggleView ==
  /\ chart.stage # "off"
  /\ chart' = [Stale(chart) EXCEPT !.showModal = ~@,
                                   !.captured = chart.minuteByMinuteHistory]
  /\ UNCHANGED <<sampler, relay, cl>>
  /\ UNCHANGED <<clientVars, fixVars, gatewayVars>>

\* time passes
ChartTick ==
  /\ chart.stage # "off"
  /\ chart.ticks < MaxChartTicks
  /\ chart' = [Stale(chart) EXCEPT !.ticks = @ + 1, !.now = @ + ChartStep]
  /\ UNCHANGED <<sampler, relay, cl>>
  /\ UNCHANGED <<clientVars, fixVars, gatewayVars>>

\* the chart data is computed from the state
Render ==
  /\ chart.stage = "idle"
  /\ chart' = [chart EXCEPT !.stage = "rendered",
                            !.dataPoints = createChartDataPoints(chart)]
  /\ UNCHANGED <<sampler, relay, cl>>
  /\ UNCHANGED <<clientVars, fixVars, gatewayVars>>

\* recordHistoricalDataPoint(): runs when currentWaterLevel is set and every
\* five minutes after
recordHistoricalDataPoint ==
  /\ chart.stage # "off"
  /\ chart.currentWaterLevel # None
  /\ chart' = [chart EXCEPT
                 !.minuteByMinuteData =
                    PutMinute(@, [waterLevel |-> chart.currentWaterLevel[1],
                                  timestamp |-> chart.now,
                                  deviceId |-> "webapp-5minute-recorder"])]
  /\ UNCHANGED <<sampler, relay, cl>>
  /\ UNCHANGED <<clientVars, fixVars, gatewayVars>>

NextChart ==
  \/ ChartMinuteData
  \/ ChartLevel
  \/ ToggleView
  \/ ChartTick
  \/ Render
  \/ recordHistoricalDataPoint

SpecChart == InitChart /\ [][NextChart]_vars

\* ------------------------------------------------------------ chart: buckets
\* the minute-by-minute records that fall inside the bucket of a label
InBucket(history, label) ==
  {j \in 1..Len(history) :
     label <= history[j].timestamp /\ history[j].timestamp < label + BucketMinutes * 60}

\* C27: the point of every label whose bucket holds minute-by-minute records
\* is taken from the record of the bucket with the greatest timestamp.
C27_BucketTakesLatest ==
  chart.stage = "rendered" =>
    \A i \in 1..LabelCount :
      LET inside == InBucket(chart.minuteByMinuteHistory, LabelAt(i - 1, chart.now))
      IN inside # {} =>
           \E j \in inside :
             /\ \A k \in inside : chart.minuteByMinuteHistory[k].timestamp
                                    <= chart.minuteByMinuteHistory[j].timestamp
             /\ chart.dataPoints[i].from = chart.minuteByMinuteHistory[j].timestamp
             /\ chart.dataPoints[i].num = chart.minuteByMinuteHistory[j].waterLevel
             /\ chart.dataPoints[i].den = 1

\* the point of such a label is taken from the record of the bucket with the
\* smallest timestamp
C27_BucketTakesEarliest ==
  chart.stage = "rendered" =>
    \A i \in 1..LabelCount :
      LET inside == InBucket(chart.minuteByMinuteHistory, LabelAt(i - 1, chart.now))
      IN inside # {} =>
           \E j \in inside :
             /\ \A k \in inside : chart.minuteByMinuteHistory[j].timestamp
                                    <= chart.minuteByMinuteHistory[k].timestamp
             /\ chart.dataPoints[i].from = chart.minuteByMinuteHistory[j].timestamp
             /\ chart.dataPoints[i].num = chart.minuteByMinuteHistory[j].waterLevel
             /\ chart.dataPoints[i].den = 1

\* a chart was drawn with two records in one bucket
C27_TwoInBucket ==
  /\ chart.stage = "rendered"
  /\ \E i \in 1..LabelCount :
       Cardinality(InBucket(chart.minuteByMinuteHistory, LabelAt(i - 1, chart.now))) = 2

\* ------------------------------------------------------------ chart: interpolation
\* the minute-by-minute records earlier than a label
Earlier(history, label) == {j \in 1..Len(history) : history[j].timestamp < label}

\* the recorder's step writes one entry, holding the current level and time
RecorderWritesLevel ==
  chart'.minuteByMinuteData # chart.minuteByMinuteData =>
    \E e \in chart'.minuteByMinuteData :
      /\ e.waterLevel = chart.currentWaterLevel[1]
      /\ e.timestamp = chart.now
      /\ chart'.minuteByMinuteData \ {e} \subseteq chart.minuteByMinuteData

\* C28: every interpolated point has a ratio in [0, 1] and a level between
\* the level of the most recent minute-by-minute record earlier than its label
\* and the current level; and the store changes only by the recorder's entry
\* for the current level.
C28_InterpolatedBetween ==
  /\ [](chart.stage = "rendered" =>
          \A i \in 1..LabelCount :
            chart.dataPoints[i].kind = "interpolated" =>
              LET point == chart.dataPoints[i]
                  history == chart.minuteByMinuteHistory
                  earlier == Earlier(history, LabelAt(i - 1, chart.now))
                  current == chart.currentWaterLevel[1]
              IN /\ 0 <= point.ratio[1] /\ point.ratio[1] <= point.ratio[2]
                 /\ \E j \in earlier :
                      /\ \A k \in earlier : history[k].timestamp <= history[j].timestamp
                      /\ Min2(history[j].waterLevel, current) * point.den <= point.num
                      /\ point.num <= Max2(history[j].waterLevel, current) * point.den)
  /\ [][RecorderWritesLevel]_vars

\* every interpolated point has a ratio in [0, 1] and a level between the
\* level of the entry of the latest earlier bucket and the current level;
\* and the store changes only by the recorder's entry for the current level
C28_BetweenBucketAndCurrent ==
  /\ [](chart.stage = "rendered" =>
          \A i \in 1..LabelCount :
            chart.dataPoints[i].kind = "interpolated" =>
              LET point == chart.dataPoints[i]
                  history == chart.minuteByMinuteHistory
                  current == chart.currentWaterLevel[1]
              IN /\ 0 <= point.ratio[1] /\ point.ratio[1] <= point.ratio[2]
                 /\ \E j \in 1..Len(history) :
                      /\ history[j].timestamp = point.from
                      /\ Min2(history[j].waterLevel, current) * point.den <= point.num
                      /\ point.num <= Max2(history[j].waterLevel, current) * point.den)
  /\ [][RecorderWritesLevel]_vars

\* a chart with interpolated points was drawn and the recorder has written
C28_Interpolated ==
  /\ chart.stage = "rendered"
  /\ chart.minuteByMinuteData # {}
  /\ \E i \in 1..LabelCount :
       /\ chart.dataPoints[i].kind = "interpolated"
       /\ chart.dataPoints[i].ratio[1] > 0

\* ------------------------------------------------------------ relay: link flag
\* a step in which checkAndReconnectWiFi returns: at once, the network being
\* connected, or after its retry loop
CheckReturns ==
  \/ gw'.call = "periodic" /\ pc' = "loop"
  \/ pc = "reconnect_done" /\ pc' = "loop"

\* C31: whenever checkAndReconnectWiFi returns, isWifiConnected is true
\* exactly when the network is connected.
C31_FlagTracksNetwork ==
  [][CheckReturns => (isWifiConnected' = wifiUp')]_vars

\* the flag is right whenever the function returns from its retry loop, and
\* a check that finds the network connected leaves the flag as it was
C31_FlagAfterRetry ==
  [][/\ (pc = "reconnect_done" /\ pc' = "loop") => (isWifiConnected' = wifiUp')
     /\ (gw'.call = "periodic" /\ pc' = "loop") =>
          (wifiUp /\ isWifiConnected' = isWifiConnected)]_vars

\* the retry loop of the health check brought the link back
C31_Reconnected ==
  pc = "loop" /\ gw.call = "none" /\ isWifiConnected /\ wifiUp /\ gw.bootFailed

\* ------------------------------------------------------------ relay: one upload per measurement
\* C32: every line the sampler sends for a detected object, whatever the
\* level from 0 to 18, makes the relay, its two links being up, call
\* uploadWaterLevel once for that measurement.
C32_ValidLineUploaded ==
  (relay.stage = "decoded" /\ sampler.objectDetected) =>
    /\ relay.first # None
    /\ relay.first[1].decoded = 100 * sampler.waterLevelCM

\* a line for a level above zero is uploaded, a line for level zero is not
C32_UploadedIffPositive ==
  (relay.stage = "decoded" /\ sampler.objectDetected) =>
    IF sampler.waterLevelCM > 0
    THEN relay.first # None /\ relay.first[1].decoded = 100 * sampler.waterLevelCM
    ELSE relay.first = None

\* the relay read the line of a measurement of level zero
C32_LevelZeroLine ==
  relay.stage = "decoded" /\ sampler.objectDetected /\ sampler.waterLevelCM = 0

\* ------------------------------------------------------------ dashboard: severity of a record
\* the severity of the dashboard that stands for a status of the relay
SeverityOf(status) ==
  IF status = "Safe" THEN "normal"
  ELSE IF status = "Warning" THEN "warning"
  ELSE "danger"

\* C33: for every record the relay uploads, the severity the dashboard
\* derives from the waterLevel of the record is the one that stands for the
\* status the relay stored in it.
C33_SeverityCorresponds ==
  cl.stage = "classified" => cl.dashboardA = SeverityOf(cl.relayA)

SeverityRank(severity) ==
  IF severity = "normal" THEN 0 ELSE IF severity = "warning" THEN 1 ELSE 2

\* the dashboard's severity never exceeds the one of the stored status, and
\* the two agree up to 3 cm and from 15.2 cm on
C33_SeverityNotAbove ==
  cl.stage = "classified" =>
    /\ SeverityRank(cl.dashboardA) <= SeverityRank(SeverityOf(cl.relayA))
    /\ (cl.a <= SAFE_THRESHOLD_CM \/ cl.a >= 1520) => cl.dashboardA = SeverityOf(cl.relayA)

\* a record of 4.5 cm was classified by both
C33_Classified ==
  cl.stage = "classified" /\ cl.a = 450

\* ------------------------------------------------------------ dashboard: alert status
\* C34: whenever currentWaterLevel is set, alertStatus is the severity of
\* currentWaterLevel, whichever view was open when the emission was processed.
C34_AlertFollowsLevel ==
  (chart.stage # "off" /\ chart.currentWaterLevel # None) =>
    chart.alertStatus = App_getStatusFromWaterLevel(Num(chart.currentWaterLevel[1]))

\* an emission processed with no view open sets alertStatus to the severity
\* of the new level, an emission processed with a view open leaves it alone
C34_AlertOutsideViews ==
  [][(chart.stage # "off" /\ chart'.currentWaterLevel # chart.currentWaterLevel) =>
        IF chart.showModal
        THEN chart'.alertStatus = chart.alertStatus
        ELSE chart'.alertStatus =
               App_getStatusFromWaterLevel(Num(chart'.currentWaterLevel[1]))]_vars

\* a level was processed while a view was open
C34_ProcessedInView ==
  /\ chart.stage # "off"
  /\ chart.showModal
  /\ chart.currentWaterLevel = Some(80)
  /\ chart.alertStatus = "normal"

\* ------------------------------------------------------------ client: NaN levels
\* C35: no reading handed to the consumer of subscribeToWaterLevelUpdates has
\* a waterLevel that is not a number, whichever path emitted it.
C35_NoNaNDelivered ==
  consumer.out # None =>
    \A i \in 1..Len(consumer.out[1]) : IsValidLevel(consumer.out[1][i])

\* the emissions of the two handlers and of the timer carry numeric levels only
C35_NoNaNFromHandlers ==
  /\ \A i \in 1..Len(allReadings) : IsValidLevel(allReadings[i])
  /\ (consumer.out # None /\ consumer.kind # "fetch") =>
       \A i \in 1..Len(consumer.out[1]) : IsValidLevel(consumer.out[1][i])

\* a handler received a record with a non-numeric level and left it aside
C35_NaNDropped ==
  consumer.dropped = "level"

\* ------------------------------------------------------------ relay: order of the writes
\* C36: the current slot changes only in an upload whose history write
\* succeeded, and then the history holds the same record under the record's
\* timestamp; an upload whose history write failed leaves the store and
\* lastSuccessfulUpload as they were.
C36_CurrentAfterHistory ==
  [][/\ (store'.current # store.current) =>
          /\ gw'.call = "upload"
          /\ gw'.wrote = "both"
          /\ [key |-> store'.current[1].timestamp, value |-> store'.current[1]]
               \in store'.history
          /\ lastSuccessfulUpload' = store'.current[1].timestamp
     /\ (gw'.call = "upload" /\ gw'.wrote = "neither") =>
          /\ store' = store
          /\ lastSuccessfulUpload' = lastSuccessfulUpload]_vars

\* an upload failed at its history write after an earlier one had filled
\* the current slot
C36_Witness ==
  /\ gw.call = "upload"
  /\ gw.wrote = "neither"
  /\ store.current # <<>>

\* ------------------------------------------------------------ reconciler: ignored snapshots
\* the snapshot the handler of the last step received, and which handler
Handled ==
  IF consumer.seen # None THEN consumer.seen[1]
  ELSE IF merged.last = "current" THEN [from |-> "current", snap |-> merged.cur]
  ELSE [from |-> "history", snap |-> merged.hist]

\* a current snapshot that is absent or fails the handler's tests, a history
\* snapshot that is absent or has no entry with a numeric water level
NothingUsable(h) ==
  IF h.from = "current"
  THEN \/ ~h.snap.exists
       \/ ~HasRequiredFields(h.snap)
       \/ MakeReading(CURRENT_ID, h.snap, Now).waterLevel.t # "num"
  ELSE \A i \in 1..Len(h.snap) :
         MakeReading(h.snap[i].key, h.snap[i].data, Now).waterLevel.t # "num"

\* C37: a history snapshot that is absent or has no valid entry, and a
\* current snapshot that is absent or fails validation, leave allReadings
\* and the state of the debounced emitter as they were and call nobody.
C37_UnusableSnapshotIgnored ==
  [][(events' = events + 1 /\ NothingUsable(Handled')) =>
       /\ allReadings' = allReadings
       /\ lastUpdateTime' = lastUpdateTime
       /\ pendingUpdate' = pendingUpdate
       /\ pendingUpdateTimer' = pendingUpdateTimer
       /\ timers' = timers
       /\ deb' = deb
       /\ consumer'.out = None]_vars

\* an absent or entry-free history snapshot arrived while merged history
\* readings were held, and they are still there
C37_Witness ==
  /\ consumer.seen # None
  /\ consumer.seen[1].from = "history"
  /\ \E i \in 1..Len(allReadings) : allReadings[i].id # CURRENT_ID

\* a current snapshot that failed validation arrived while a timer was armed
C37_CurrentIgnored ==
  /\ consumer.seen # None
  /\ consumer.seen[1].from = "current"
  /\ consumer.seen[1].snap.exists
  /\ pendingUpdateTimer # 0
  /\ pendingUpdate # None

\* ------------------------------------------------------------ sampler and relay: the status
\* C38: for every line the sampler sends for a detected object, the relay
\* computes a status from the decoded value and it is the status text the
\* sampler put in the line.
C38_StatusAgrees ==
  (relay.stage = "decoded" /\ sampler.objectDetected) =>
    /\ relay.first # None
    /\ relay.first[1].status = sampler.statusText

\* the thresholds of the two sketches agree on every decoded value, and the
\* relay's status is the sampler's whenever the relay computes one
C38_ThresholdsAgree ==
  (relay.stage = "decoded" /\ sampler.objectDetected) =>
    /\ StatusOf(DecodeLine(trim(sampler.sent[1]))) = sampler.statusText
    /\ relay.first # None => relay.first[1].status = sampler.statusText
    /\ relay.first = None <=> sampler.waterLevelCM = 0

\* the relay computed a status for a line of each of the three classes
C38_Computed ==
  /\ relay.stage = "decoded"
  /\ sampler.objectDetected
  /\ relay.first # None
  /\ relay.first[1].status = "Critical"

\* ------------------------------------------------------------ relay: ranges of a record
\* the records the relay has written: the history and the current slot
Uploaded == {e.value : e \in store.history} \cup {store.current[i] : i \in 1..Len(store.current)}

\* C39: every record the relay uploads has a waterLevel from 0 to 100, a
\* distance above 0 and at most REPORT_MAX_DISTANCE_CM, and a status that is
\* Safe, Warning or Critical, whatever the line was.
C39_RecordInRange ==
  \A json \in Uploaded :
    /\ 0 <= json.waterLevel /\ json.waterLevel <= 100
    /\ 0 < json.distance /\ json.distance <= REPORT_MAX_DISTANCE_CM
    /\ json.status \in {"Safe", "Warning", "Critical"}

\* a record of a value beyond both caps is stored, next to one below them
C39_Witness ==
  /\ \E json \in Uploaded :
       json.waterLevel = 100 /\ json.distance = REPORT_MAX_DISTANCE_CM
  /\ \E json \in Uploaded :
       json.waterLevel < 100 /\ json.distance < REPORT_MAX_DISTANCE_CM

\* ------------------------------------------------------------ sampler: state after a turn
\* how many of the three LEDs are lit
LedsOn(s) ==
  (IF s.GREEN_LED THEN 1 ELSE 0) + (IF s.YELLOW_LED THEN 1 ELSE 0)
    + (IF s.RED_LED THEN 1 ELSE 0)

\* C40: after every turn of loop(), a detected object means a raw distance
\* from 2 to 20, a level from 0 to 18, a status of Safe, Warning or Critical
\* and exactly one LED lit; no object means level 0, the status No Object
\* and the three LEDs and the buzzer off.
C40_LoopPostcondition ==
  sampler.stage = "run" /\ sampler.ticks > 0 =>
    IF sampler.objectDetected
    THEN /\ 2 <= sampler.rawDistance /\ sampler.rawDistance <= 20
         /\ 0 <= sampler.waterLevelCM /\ sampler.waterLevelCM <= 18
         /\ sampler.statusText \in {"Safe", "Warning", "Critical"}
         /\ LedsOn(sampler) = 1
    ELSE /\ sampler.waterLevelCM = 0
         /\ sampler.statusText = "No Object"
         /\ LedsOn(sampler) = 0
         /\ ~sampler.BUZZER_PIN

\* a turn without an object after an earlier turn had sounded the buzzer
C40_Witness ==
  /\ sampler.stage = "run"
  /\ sampler.ticks > 1
  /\ ~sampler.objectDetected
  /\ sampler.buzzerState

\* a turn that measured the nearest object the sketch accepts
C40_NearestObject ==
  /\ sampler.stage = "run"
  /\ sampler.objectDetected
  /\ sampler.rawDistance = 2
  /\ sampler.waterLevelCM = 18
  /\ sampler.RED_LED

====
